---- MODULE Spec2Model ----
(***************************************************************************)
(* to-build: the entity extraction / placeholder substitution / rewrite    *)
(* pipeline, the staging and production passes, the production coalescing  *)
(* pass and the path resolver, as implemented in src/src/builder.cjs,      *)
(* src/src/entity-manager.cjs, src/src/source-finder.cjs and utils.cjs.    *)
(*                                                                         *)
(* JavaScript strings are sequences of symbols.  A symbol is a record:     *)
(* [ch |-> "a"] is the character a, and [sha1 |-> t] stands for the 40 hex *)
(* digits of the SHA-1 digest of the text (or file content) t.             *)
(* HTML text is a sequence of tokens (a tag, a run                         *)
(* of ordinary markup, white space, a comment marker, the placeholder      *)
(* delimiter, a tag-id), so that split/replace/trim are computed on it as  *)
(* the code computes them on characters.                                   *)
(***************************************************************************)
EXTENDS Integers, Sequences, FiniteSets, TLC

VARIABLES
    fn,          \* harness: name of the function under evaluation
    arg,         \* harness: its arguments (the state it reads)
    res,         \* harness: its result, "pending" before the call
    pc,          \* init(): position of the process
    cli,         \* init(): the parsed command line options
    inputs,      \* init(): the entry documents (cli._)
    files,       \* the source tree: set of [path, data]
    disk,        \* the output tree: set of [path, data]
    rootFolders, \* source-finder.cjs: the Root Set
    entities,    \* entity-manager.cjs: category -> sequence of entities
    lookup,      \* entity-manager.cjs: uri -> entity (as <<category, index>>)
    prod,        \* entity-manager.cjs: tag-ids recorded by addProdCode
    pass,        \* generateAllHTMLs/generateBuild/copyAssetsFromHTML locals
    hist         \* observations of the run (what was built, what was called)

fnVars == <<fn, arg, res>>
pipeVars == <<pc, cli, inputs, files, disk, rootFolders, entities, lookup, prod, pass, hist>>
vars == <<fn, arg, res, pc, cli, inputs, files, disk, rootFolders, entities, lookup, prod, pass, hist>>

-----------------------------------------------------------------------------
(* Bounds of the model *)

\* user-supplied root directories besides the entry document's directory
MaxRoots == 2
\* items (placeholders, markup, white space) of a working text handed to
\* buildProductionTargets
MaxItems == 4

-----------------------------------------------------------------------------
(* JavaScript values and strings *)

\* null / undefined, and the result of a call that has not returned yet
Null == [t |-> "null"]
Pending == [t |-> "pending"]

Max(S) == CHOOSE x \in S : \A y \in S : y <= x
Min(S) == CHOOSE x \in S : \A y \in S : x <= y

Ch(c) == [ch |-> c]
\* the string whose characters are the elements of the tuple t
S(t) == [i \in 1..Len(t) |-> Ch(t[i])]

\* s.substring(a) / s.substring(a, b) with 1-based inclusive positions
From(s, a) == IF a > Len(s) THEN <<>> ELSE SubSeq(s, Max({a, 1}), Len(s))
Upto(s, b) == IF b < 1 THEN <<>> ELSE SubSeq(s, 1, Min({b, Len(s)}))

IsAt(s, search, i) ==
    /\ i >= 1
    /\ i + Len(search) - 1 <= Len(s)
    /\ SubSeq(s, i, i + Len(search) - 1) = search

\* String.prototype.indexOf / lastIndexOf, 1-based, 0 when absent (JS: -1)
indexOf(s, search) ==
    LET hits == {i \in 1..Len(s) : IsAt(s, search, i)}
    IN  IF hits = {} THEN 0 ELSE Min(hits)

lastIndexOf(s, search) ==
    LET hits == {i \in 1..Len(s) : IsAt(s, search, i)}
    IN  IF hits = {} THEN 0 ELSE Max(hits)

startsWith(s, p) == IsAt(s, p, 1)

\* String.prototype.replace(search, by) with a string pattern: the first
\* occurrence only, the text unchanged when there is none
replaceFirst(s, search, by) ==
    LET i == indexOf(s, search)
    IN  IF i = 0 THEN s ELSE Upto(s, i - 1) \o by \o From(s, i + Len(search))

\* builder.cjs replaceLast: no test of index === -1, so an absent search
\* string yields replace + str.substring(search.length - 1)
replaceLast(str, search, replace) ==
    LET i == lastIndexOf(str, search)
    IN  Upto(str, i - 1) \o replace \o From(str, i + Len(search))

\* the pieces of s between the occurrences of the separator element
RECURSIVE SplitOn(_, _)
SplitOn(s, sep) ==
    LET hits == {i \in 1..Len(s) : s[i] = sep}
    IN  IF hits = {} THEN <<s>>
        ELSE LET i == Min(hits)
             IN  <<Upto(s, i - 1)>> \o SplitOn(From(s, i + 1), sep)

RECURSIVE Flatten(_)
Flatten(ss) == IF ss = <<>> THEN <<>> ELSE Head(ss) \o Flatten(Tail(ss))

\* sequences over T of length at most n
RECURSIVE SeqsUpTo(_, _)
SeqsUpTo(T, n) ==
    IF n = 0 THEN {<<>>}
    ELSE LET shorter == SeqsUpTo(T, n - 1)
         IN  shorter \cup {Append(q, x) : q \in {r \in shorter : Len(r) = n - 1}, x \in T}

\* those without repeated elements
SeqsNoDup(T, n) ==
    {q \in SeqsUpTo(T, n) : \A i, j \in 1..Len(q) : i # j => q[i] # q[j]}

-----------------------------------------------------------------------------
(* Paths.  A directory is a sequence of components, a path a directory and *)
(* a file name; the file system root is the empty directory.               *)

Slash == Ch("/")
Dot == Ch(".")

\* the non-empty components of a path string
Components(str) == SelectSeq(SplitOn(str, Slash), LAMBDA c : c # <<>>)

Front(q) == SubSeq(q, 1, Len(q) - 1)
Last(q) == q[Len(q)]

\* a path string that names a file, as a path
ToPath(str) ==
    LET cs == Components(str)
    IN  [dir |-> Front(cs), file |-> Last(cs)]

\* @thimpat/libutils joinPath(folder, rel) where rel names a file
joinPath(folder, rel) ==
    LET cs == Components(rel)
    IN  [dir |-> folder \o Front(cs), file |-> Last(cs)]

\* fs.existsSync over a set of file records
existsSync(fs, path) == \E f \in fs : f.path = path

-----------------------------------------------------------------------------
(* source-finder.cjs *)

\* getPathName: new URL(uri, "http://someaddress").pathname, for uris made
\* of an optional leading "./" or "/", a relative path, and an optional
\* query or fragment
getPathName(uri) ==
    LET cuts == {i \in 1..Len(uri) : uri[i] \in {Ch("?"), Ch("#")}}
        p == IF cuts = {} THEN uri ELSE Upto(uri, Min(cuts) - 1)
        q == IF startsWith(p, <<Dot, Slash>>) THEN From(p, 3) ELSE p
    IN  IF startsWith(q, <<Slash>>) THEN q ELSE <<Slash>> \o q

\* lookupRootPath with the loop running from the last root (mutation)
lookupRootPath_LastMatch(uri, roots, fs) ==
    IF uri = <<>> THEN Null
    ELSE IF existsSync(fs, ToPath(uri))
    THEN [t |-> "string", path |-> ToPath(uri)]
    ELSE LET hits == {i \in 1..Len(roots) : existsSync(fs, joinPath(roots[i], uri))}
         IN  IF hits = {} THEN Null
             ELSE [t |-> "pair", rootFolder |-> roots[Max(hits)],
                   sourcePath |-> joinPath(roots[Max(hits)], uri)]

\* lookupRootPath(uri): the literal path first, which returns the resolved
\* path itself (a string, not a pair); then the roots in order
lookupRootPath(uri, roots, fs) ==
    IF uri = <<>> THEN Null
    ELSE IF existsSync(fs, ToPath(uri))
    THEN [t |-> "string", path |-> ToPath(uri)]
    ELSE LET hits == {i \in 1..Len(roots) : existsSync(fs, joinPath(roots[i], uri))}
         IN  IF hits = {} THEN Null
             ELSE [t |-> "pair", rootFolder |-> roots[Min(hits)],
                   sourcePath |-> joinPath(roots[Min(hits)], uri)]

\* lookupStaticPath(uri) over the Static Set
lookupStaticPath(uri, statics, fs) ==
    IF uri = <<>> THEN Null
    ELSE LET hits == {i \in 1..Len(statics) : existsSync(fs, joinPath(statics[i], uri))}
         IN  IF hits = {} THEN Null
             ELSE [t |-> "pair", rootFolder |-> statics[Min(hits)],
                   sourcePath |-> joinPath(statics[Min(hits)], uri)]

-----------------------------------------------------------------------------
(* HTML text as tokens *)

Tok(k) == [k |-> k, el |-> "", attr |-> "", uri |-> <<>>, sheet |-> FALSE,
           module |-> FALSE, upper |-> FALSE, cat |-> "", n |-> 0, txt |-> ""]

\* a run of ordinary markup or text
Text(t) == [Tok("text") EXCEPT !.txt = t]
\* white space
WS == Tok("ws")
\* the placeholder delimiter MASKS.DELIMITER
Delim == Tok("delim")
\* the text of a tag-id, `${category}(${counter})`
IdTok(c, i) == [Tok("id") EXCEPT !.cat = c, !.n = i]
\* <!-- to-build remove <mode> --> and <!-- /to-build remove <mode> -->
OpenM(m) == [Tok("open") EXCEPT !.txt = m]
CloseM(m) == [Tok("close") EXCEPT !.txt = m]
\* <el ... attr="uri" ...>; sheet: the tag holds the word stylesheet; module:
\* it holds type="module"; upper: one of its other attribute values holds
\* an upper-case letter (as in title="Main")
Tag(el, attr, uri, sheet, module, upper) ==
    [Tok("tag") EXCEPT !.el = el, !.attr = attr, !.uri = uri, !.sheet = sheet,
                       !.module = module, !.upper = upper]

\* String.prototype.toLowerCase on the text of one token
toLowerCase(tok) == [tok EXCEPT !.upper = FALSE]

\* String.prototype.trim on a text
RECURSIVE trim(_)
trim(h) ==
    IF h = <<>> THEN h
    ELSE IF Head(h) = WS THEN trim(Tail(h))
    ELSE IF Last(h) = WS THEN trim(Front(h))
    ELSE h

-----------------------------------------------------------------------------
(* entity-manager.cjs: CATEGORY and the entity record (ENTITY_TYPE) *)

Categories == {"css", "script", "esm", "generic", "extras", "medias"}

NoPath == [dir |-> <<>>, file |-> <<>>]

NewEntity(tag, uri) ==
    [tag |-> tag, uri |-> uri, originalUri |-> <<>>, category |-> "",
     pathname |-> <<>>, name |-> <<>>, base |-> <<>>, ext |-> <<>>, dir |-> <<>>,
     fullname |-> <<>>, sourcePath |-> NoPath, sourceDir |-> <<>>,
     rootFolder |-> <<>>, tagID |-> <<"", 0>>, replacement |-> <<>>,
     targetPath |-> NoPath, targetDir |-> <<>>, targetName |-> <<>>,
     targetPathUncompressed |-> NoPath, originalContent |-> <<>>, code |-> <<>>,
     sourcemapName |-> <<>>, sourcemapPath |-> NoPath, sourcemapContent |-> <<>>,
     \* not fields of the program: the pass that registered the entity, and
     \* whether updateHtml has run for it
     regPass |-> <<"", 0>>, applied |-> FALSE]

\* `${MASKS.DELIMITER}${tagID}${MASKS.DELIMITER}`
Replacement(tagID) == <<Delim, IdTok(tagID[1], tagID[2]), Delim>>

\* getCodeTagID(key): prod[key], where the key is a text
getCodeTagID(key, prodIdx, ents) ==
    IF /\ Len(key) = 1
       /\ key[1].k = "id"
       /\ <<key[1].cat, key[1].n>> \in prodIdx
    THEN [t |-> "entity", e |-> ents[key[1].cat][key[1].n + 1]]
    ELSE Null

-----------------------------------------------------------------------------
(* utils.cjs *)

\* getHashFromText: the SHA-1 digest of a text, in hexadecimal
getHashFromText(text) == <<[sha1 |-> text]>>

\* fs.writeFileSync / fs.copyFileSync on the output tree
WriteFile(out, path, data) ==
    {f \in out : f.path # path} \cup {[path |-> path, data |-> data]}

-----------------------------------------------------------------------------
(* entity-manager.cjs: addEntity.  A registry value is a record             *)
(* [ents, lookup, prod]: the three module-level objects entities, lookup    *)
(* and prod.  An entity is an object shared by the three; it is identified  *)
(* by <<category, index>>, which never changes once it is pushed.          *)

\* path.parse(pathname) of a path string, given its last component and the
\* position of the last dot in it
ParsedPath(pathname, base, d, li) ==
    [base |-> base,
     ext |-> IF d > 1 THEN From(base, d) ELSE <<>>,
     name |-> IF d > 1 THEN Upto(base, d - 1) ELSE base,
     dir |-> IF li = 1 THEN <<Slash>> ELSE Upto(pathname, li - 1)]

BaseOf(cs) == IF cs = <<>> THEN <<>> ELSE Last(cs)

ParsedBase(pathname, base) ==
    ParsedPath(pathname, base, lastIndexOf(base, <<Dot>>), lastIndexOf(pathname, <<Slash>>))

pathParse(pathname) == ParsedBase(pathname, BaseOf(Components(pathname)))

\* isUrl(string): new URL(string) succeeds, i.e. the string has a scheme
isUrl(str) == indexOf(str, <<Ch(":")>>) > 1

\* lookup[uri] = entity
SetLookup(lk, uri, ref) == {e \in lk : e.uri # uri} \cup {[uri |-> uri, ref |-> ref]}

\* the null result of addEntity
NotAdded(reg) == [ok |-> FALSE, reg |-> reg, replacement |-> <<>>]

\* the fields addEntity sets, then entities[category].push(entity) and
\* lookup[entity.uri] = entity
Registered(category, tag, uri, validPathname, info, resLookups, reg, tagID, stamp) ==
    [ok |-> TRUE,
     reg |-> [reg EXCEPT
                !.ents[category] =
                    Append(@, [NewEntity(tag, uri) EXCEPT
                                  !.pathname = validPathname,
                                  !.name = info.name, !.base = info.base,
                                  !.ext = info.ext, !.dir = info.dir,
                                  !.fullname = Last(SplitOn(validPathname, Slash)),
                                  !.category = category,
                                  !.sourcePath = resLookups.sourcePath,
                                  !.sourceDir = resLookups.sourcePath.dir,
                                  !.rootFolder = resLookups.rootFolder,
                                  !.tagID = tagID,
                                  !.replacement = Replacement(tagID),
                                  !.originalUri = uri,
                                  !.regPass = stamp]),
                !.lookup = SetLookup(@, uri, tagID)],
     replacement |-> Replacement(tagID)]

\* the source of an entity looked up beside referenceDir
ViaReference(referenceDir, sourcePath, fs) ==
    IF existsSync(fs, sourcePath)
    THEN [t |-> "pair", rootFolder |-> referenceDir, sourcePath |-> sourcePath]
    ELSE Null

\* addEntity numbering every entity of a category 0 (mutation)
AddFound_SameId(category, tag, uri, validPathname, resLookups, reg, stamp) ==
    IF resLookups.t # "pair" THEN NotAdded(reg)
    ELSE Registered(category, tag, uri, validPathname, pathParse(validPathname),
                    resLookups, reg, <<category, 0>>, stamp)

\* not found (fragment, Static Set or missing), or the literal path:
\* destructuring a string gives undefined and path.parse(undefined) throws
AddFound(category, tag, uri, validPathname, resLookups, reg, stamp) ==
    IF resLookups.t # "pair" THEN NotAdded(reg)
    ELSE Registered(category, tag, uri, validPathname, pathParse(validPathname),
                    resLookups, reg, <<category, Len(reg.ents[category])>>, stamp)

AddValid(category, tag, uri, validPathname, referenceDir, reg, roots, fs, stamp) ==
    IF validPathname = <<Slash>> THEN NotAdded(reg)
    ELSE AddFound(category, tag, uri, validPathname,
                  IF referenceDir # <<>>
                  THEN ViaReference(referenceDir, joinPath(referenceDir, validPathname), fs)
                  ELSE lookupRootPath(validPathname, roots, fs),
                  reg, stamp)

\* addEntity(category, {tag, uri}, referenceDir); referenceDir <<>> is "".
\* Result: [ok, reg, replacement]; ok = FALSE is the null result.
\* fs is the source tree, roots the Root Set.
addEntity(category, tag, uri, referenceDir, reg, roots, fs, stamp) ==
    IF uri = <<>> THEN NotAdded(reg)
    ELSE IF isUrl(uri) THEN NotAdded(reg)
    ELSE AddValid(category, tag, uri, getPathName(uri), referenceDir, reg, roots, fs, stamp)

-----------------------------------------------------------------------------
(* builder.cjs: extractEntities over the tags of an HTML text *)

\* a token the pattern `<${tagName} .*?\b${sourceRefName}\s*=...` matches
Matches(tok, tagName, sourceRefName) ==
    /\ tok.k = "tag"
    /\ tagName \in {tok.el, "\\w+"}
    /\ tok.attr = sourceRefName

\* regexpProp.test(tag) for the two extra properties in use
HasExtra(tag, extraProperty) ==
    IF extraProperty = "stylesheet" THEN tag.sheet
    ELSE IF extraProperty = "module" THEN tag.module
    ELSE TRUE

\* the replacement made whether or not addEntity returned an entity
\* (mutation)
Replaced_Always(st, tag, added) ==
    [content |-> replaceFirst(st.content, <<tag>>, added.replacement),
     reg |-> added.reg]

\* content = content.replace(tag, added.replacement), when added is not null
Replaced(st, tag, added) ==
    IF ~added.ok THEN st
    ELSE [content |-> replaceFirst(st.content, <<tag>>, added.replacement),
          reg |-> added.reg]

\* one iteration of the loop over the matches; tag = match[0].toLowerCase()
ExtractOne(tag, uri, st, spec, env) ==
    IF ~HasExtra(tag, spec.extraProperty) THEN st
    ELSE Replaced(st, tag,
                  addEntity(spec.category, tag, uri, spec.referenceDir,
                            st.reg, env.roots, env.fs, env.stamp))

\* the loop over the matches ms (tokens of the text as it was when the
\* pattern was applied); st = [content, reg]
RECURSIVE ExtractLoop(_, _, _, _)
ExtractLoop(ms, st, spec, env) ==
    IF ms = <<>> THEN st
    ELSE ExtractLoop(Tail(ms),
                     ExtractOne(toLowerCase(Head(ms)), Head(ms).uri, st, spec, env),
                     spec, env)

\* extractEntities(content, {tagName, sourceRefName, extraProperty, category,
\* referenceDir}): [content, reg]
extractEntities(content, reg, spec, env) ==
    ExtractLoop(SelectSeq(content, LAMBDA tk : Matches(tk, spec.tagName, spec.sourceRefName)),
                [content |-> content, reg |-> reg], spec, env)

-----------------------------------------------------------------------------
(* builder.cjs: extractEntities with a search pattern, over the content of *)
(* a stylesheet or of a manifest.  Besides its other text the content      *)
(* holds url(...) references, quoted or not, other text that ends with a   *)
(* closing parenthesis, as rgb(0), and "src": "..." fields.                *)

UrlQ(uri) == [url |-> uri, quoted |-> TRUE]
UrlU(uri) == [url |-> uri, quoted |-> FALSE]
Rgb == [paren |-> "rgb(0)"]
Src(uri) == [src |-> uri]

IsUrlRef(sym) == "url" \in DOMAIN sym
\* the text of the symbol holds a quote
HasQuote(sym) == (IsUrlRef(sym) /\ sym.quoted) \/ "src" \in DOMAIN sym
\* the text of the symbol holds a closing parenthesis and no quote
ClosesParen(sym) == (IsUrlRef(sym) /\ ~sym.quoted) \/ "paren" \in DOMAIN sym

\* the characters of a symbol without a quote
CharsOf(sym) ==
    IF IsUrlRef(sym) THEN S(<<"u", "r", "l", "(">>) \o sym.url \o <<Ch(")")>>
    ELSE IF "paren" \in DOMAIN sym THEN S(<<"r", "g", "b", "(", "0", ")">>)
    ELSE <<Ch("x")>>

\* match[1] of an unquoted url( whose group runs on to the closing
\* parenthesis that ends the symbol at k
Spanned(content, i, k) ==
    content[i].url \o <<Ch(")")>>
        \o Flatten([n \in 1..(k - i - 1) |-> CharsOf(content[i + n])])
        \o Front(CharsOf(content[k]))

\* match[1] of the matches of url\(["']?([^"']+)["']?\) from position i on.
\* [^"']+ is greedy and runs over line ends: the group of an unquoted
\* reference ends before the last closing parenthesis that comes before
\* the next quote of the content.
RECURSIVE UrlMatches(_, _)
UrlMatches(content, i) ==
    IF i > Len(content) THEN <<>>
    ELSE IF ~IsUrlRef(content[i]) THEN UrlMatches(content, i + 1)
    ELSE IF content[i].quoted THEN <<content[i].url>> \o UrlMatches(content, i + 1)
    ELSE LET quotes == {j \in (i + 1)..Len(content) : HasQuote(content[j])}
             stop == IF quotes = {} THEN Len(content) + 1 ELSE Min(quotes)
             parens == {k \in (i + 1)..(stop - 1) : ClosesParen(content[k])}
         IN  IF parens = {} THEN <<content[i].url>> \o UrlMatches(content, i + 1)
             ELSE <<Spanned(content, i, Max(parens))>>
                      \o UrlMatches(content, Max(parens) + 1)

\* match[1] of the matches of "src"\s*:\s*"([^"]+)"
SrcMatches(content) ==
    LET refs == SelectSeq(content, LAMBDA sym : "src" \in DOMAIN sym)
    IN  [k \in 1..Len(refs) |-> refs[k].src]

\* the matches as {tag, uri}: tag is the matched text
NestedTags(search, uris) ==
    [k \in 1..Len(uris) |-> [Tok("tag") EXCEPT !.el = search, !.uri = uris[k]]]

\* extractEntities(content, {search, category, referenceDir}), its text
\* dropped by the caller: the registry after it.  referenceDir is the
\* directory of a source file, never empty, so addEntity does not read the
\* Root Set.
extractNested(content, reg, search, category, referenceDir, fs) ==
    ExtractLoop(NestedTags(search, IF search = "url" THEN UrlMatches(content, 1)
                                   ELSE SrcMatches(content)),
                [content |-> content, reg |-> reg],
                [tagName |-> search, sourceRefName |-> "", extraProperty |-> "",
                 category |-> category, referenceDir |-> referenceDir],
                [roots |-> <<>>, fs |-> fs, stamp |-> <<"nested", 0>>]).reg

-----------------------------------------------------------------------------
(* The file system calls of builder.cjs.  A tree is a set of [path, data]; *)
(* a directory d is the entry whose path is [dir |-> d, file |-> <<>>].     *)

DirEntry(d) == [path |-> [dir |-> d, file |-> <<>>], data |-> <<>>]

DirExists(tree, d) == d = <<>> \/ DirEntry(d) \in tree

\* fs.mkdirSync(d, {recursive: true})
MkdirP(tree, d) == tree \cup {DirEntry(SubSeq(d, 1, k)) : k \in 1..Len(d)}

\* fs.readFileSync(path): the data of the file (the caller checks existence)
ReadFile(tree, path) == (CHOOSE f \in tree : f.path = path).data

\* fs.writeFileSync(path, data): throws when the directory does not exist
CanWriteTo(tree, path) == DirExists(tree, path.dir)

\* getHashFromFile(filepath): the SHA-1 digest of the file's content
getHashFromFile(fs, path) == <<[sha1 |-> ReadFile(fs, path)]>>

-----------------------------------------------------------------------------
(* builder.cjs: target names, and the rewrite of the HTML *)

\* makePathRelative prefixing every uri (mutation)
makePathRelative_Prefix(newUri) ==
    IF startsWith(newUri, <<Slash>>) THEN <<Dot>> \o newUri
    ELSE <<Dot, Slash>> \o newUri

\* makePathRelative(newUri); path.isAbsolute is that of POSIX
makePathRelative(newUri) ==
    IF startsWith(newUri, <<Slash>>) THEN <<Dot>> \o newUri
    ELSE IF ~startsWith(newUri, <<Dot, Slash>>) THEN <<Dot, Slash>> \o newUri
    ELSE newUri

DotMin == S(<<".", "m", "i", "n">>)
DotMap == S(<<".", "m", "a", "p">>)

\* reviewTargetEntity, production: the file is named after its digest
HashedTarget(entity, destFolder, newName, uri) ==
    [entity EXCEPT !.targetName = newName, !.uri = uri, !.pathname = uri,
                   !.targetPath = joinPath(destFolder, uri)]

\* reviewTargetEntity naming the production file from the last segment of
\* entity.uri (mutation)
WithTarget_FromUri(entity, destFolder, production, fs) ==
    IF production
    THEN HashedTarget(entity, destFolder, getHashFromFile(fs, entity.sourcePath),
                      replaceFirst(Last(SplitOn(entity.uri, Slash)),
                                   pathParse(entity.sourcePath.file).name,
                                   getHashFromFile(fs, entity.sourcePath)))
    ELSE [entity EXCEPT !.targetPath = joinPath(destFolder, entity.pathname)]

\* reviewTargetEntity: entity.targetPath
WithTarget(entity, destFolder, production, fs) ==
    IF production
    THEN HashedTarget(entity, destFolder, getHashFromFile(fs, entity.sourcePath),
                      replaceFirst(entity.fullname, pathParse(entity.sourcePath.file).name,
                                   getHashFromFile(fs, entity.sourcePath)))
    ELSE [entity EXCEPT !.targetPath = joinPath(destFolder, entity.pathname)]

\* reviewTargetEntity: entity.targetDir = decorticatePath(targetPath).dir
WithTargetDir(entity) == [entity EXCEPT !.targetDir = entity.targetPath.dir]

\* reviewTargetEntity: if (minify) ... else ...  replaceLast runs on the
\* whole target path; its last occurrence of the name lies in the file name,
\* so it is computed on the file name.
WithTargetName(entity, minify) ==
    IF minify
    THEN [entity EXCEPT
            !.targetName = entity.name \o DotMin,
            !.targetPathUncompressed = entity.targetPath,
            !.targetPath.file = replaceLast(@, entity.name, entity.name \o DotMin),
            !.uri = replaceLast(@, entity.name, entity.name \o DotMin)]
    ELSE [entity EXCEPT
            !.targetName = IF @ # <<>> THEN @ ELSE pathParse(entity.targetPath.file).name]

\* reviewTargetEntity: if (sourcemaps) ...
WithSourcemap(entity, sourcemaps) ==
    IF sourcemaps
    THEN [entity EXCEPT
            !.sourcemapName = entity.name \o entity.ext \o DotMap,
            !.sourcemapPath = [dir |-> entity.targetDir,
                               file |-> entity.name \o entity.ext \o DotMap]]
    ELSE entity

\* reviewTargetEntity(entity, destFolder, {production, minify, sourcemaps}).
\* In production getHashFromFile opens a read stream on entity.sourcePath;
\* on a missing file the stream emits 'error' with no listener and the
\* promise never settles: lost |-> TRUE, the await never returns.
reviewTargetEntity(entity, destFolder, production, minify, sourcemaps, fs) ==
    IF production /\ ~existsSync(fs, entity.sourcePath)
    THEN [lost |-> TRUE, e |-> entity]
    ELSE [lost |-> FALSE,
          e |-> WithSourcemap(
                    WithTargetName(
                        WithTargetDir(WithTarget(entity, destFolder, production, fs)),
                        minify /\ ~production),
                    sourcemaps)]

\* updateHtml: the tag put back in place of the placeholder
Rewritten(htmlContent, entity, uri) ==
    [html |-> replaceFirst(htmlContent, entity.replacement,
                           <<[entity.tag EXCEPT
                                !.uri = replaceLast(@, entity.originalUri, uri)]>>),
     e |-> [entity EXCEPT !.uri = uri, !.applied = TRUE]]

\* updateHtml(htmlContent, {entity}): [html, e]
updateHtml(htmlContent, entity) ==
    Rewritten(htmlContent, entity, makePathRelative(entity.uri))

-----------------------------------------------------------------------------
(* builder.cjs: the transforms.  m = [html, reg, out]: the working text,   *)
(* the registry and the output tree.  ref = <<category, index>>.            *)

Ent(reg, ref) == reg.ents[ref[1]][ref[2] + 1]
SetEnt(m, ref, e) == [m EXCEPT !.reg.ents[ref[1]][ref[2] + 1] = e]

\* applyChangesFromEntity: the original written beside the source map, then
\* the minified code
WriteTwin(e, out) ==
    IF ~CanWriteTo(out, e.targetPathUncompressed)
    THEN [thrown |-> TRUE, out |-> out]
    ELSE [thrown |-> FALSE,
          out |-> WriteFile(WriteFile(out, e.targetPathUncompressed, e.originalContent),
                            e.targetPath, e.code)]

\* the writes of applyChangesFromEntity, up to the first that throws:
\* [thrown, out]
ApplyWrites(e, out, alreadyGenerated, fs) ==
    IF alreadyGenerated THEN [thrown |-> FALSE, out |-> out]
    ELSE IF e.code # <<>>
    THEN IF e.sourcemapContent # <<>>
         THEN IF ~CanWriteTo(out, e.sourcemapPath)
              THEN [thrown |-> TRUE, out |-> out]
              ELSE WriteTwin(e, WriteFile(out, e.sourcemapPath, e.sourcemapContent))
         ELSE [thrown |-> FALSE, out |-> WriteFile(out, e.targetPath, e.code)]
    ELSE IF ~existsSync(fs, e.sourcePath)
    THEN [thrown |-> TRUE, out |-> out]
    ELSE [thrown |-> FALSE, out |-> WriteFile(out, e.targetPath, ReadFile(fs, e.sourcePath))]

\* applyChangesFromEntity: htmlContent = updateHtml(htmlContent, {entity})
Restored(m, ref, u) == [SetEnt(m, ref, u.e) EXCEPT !.html = u.html]

\* applyChangesFromEntity after its writes: a throw is caught and the text
\* returned as it was
Applied(m, ref, w) ==
    IF w.thrown THEN [m EXCEPT !.out = w.out]
    ELSE Restored([m EXCEPT !.out = w.out], ref, updateHtml(m.html, Ent(m.reg, ref)))

\* applyChangesFromEntity(htmlContent, entity, {alreadyGenerated}).  ioOk:
\* whether the output tree accepts writes (else the first call throws).
\* The deployImmediately option is not read (builder.cjs:344-347).
applyChangesFromEntity(m, ref, alreadyGenerated, ioOk, fs) ==
    IF ~ioOk THEN m
    ELSE Applied(m, ref,
                 ApplyWrites(Ent(m.reg, ref), MkdirP(m.out, Ent(m.reg, ref).targetDir),
                             alreadyGenerated, fs))

\* the minifier services: clean-css and uglify-js
CleanCssStyles(data) == IF data = <<>> THEN <<>> ELSE <<[min |-> data]>>
UglifyError(data) == data = <<[raw |-> "bad"]>>
UglifyCode(data) == IF data = <<>> THEN <<>> ELSE <<[min |-> data]>>
SourceMapOf(data) == <<[map |-> data]>>

\* addProdCode({entity}) when production, on the entity as it now is
addProdCode(m, ref, e, production) ==
    [SetEnt(m, ref, e) EXCEPT !.reg.prod = IF production THEN @ \cup {e.tagID} ELSE @]

\* minifyCss: entity.code = css.styles when it is not empty
CssCoded(e, data, styles) ==
    [e EXCEPT !.originalContent = data, !.code = IF styles # <<>> THEN styles ELSE @]

\* minifyCss: the source map and the comment that names it
CssMapped(e, data, mapped) ==
    IF mapped
    THEN [e EXCEPT
            !.sourcemapContent = SourceMapOf(data),
            !.code = (IF @ = <<>> THEN S(<<"undefined">>) ELSE @)
                     \o <<[smurl |-> e.sourcemapName]>>]
    ELSE e

\* minifyCss once the stylesheet is read and its references are registered
CssRead(m, ref, r, sourcemaps, production, ioOk, fs) ==
    [lost |-> FALSE,
     m |-> applyChangesFromEntity(
               addProdCode(m, ref,
                           CssMapped(CssCoded(r.e, ReadFile(fs, r.e.sourcePath),
                                              CleanCssStyles(ReadFile(fs, r.e.sourcePath))),
                                     ReadFile(fs, r.e.sourcePath),
                                     ~production /\ sourcemaps),
                           production),
               ref, FALSE, ioOk, fs)]

\* the registry of m after the extraction over the content of an entity
Nested(m, e, search, category, fs) ==
    [m EXCEPT !.reg = extractNested(ReadFile(fs, e.sourcePath), @, search, category,
                                    e.sourceDir, fs)]

\* minifyCss once reviewTargetEntity has returned r: the stylesheet is read,
\* its url(...) references are registered as generic entities, then it is
\* minified
CssReviewed(m, ref, r, sourcemaps, production, ioOk, fs) ==
    IF r.lost THEN [lost |-> TRUE, m |-> m]
    ELSE IF ~existsSync(fs, r.e.sourcePath) THEN [lost |-> FALSE, m |-> SetEnt(m, ref, r.e)]
    ELSE CssRead(Nested(m, r.e, "url", "generic", fs), ref, r, sourcemaps, production,
                 ioOk, fs)

\* minifyCss({htmlContent, destFolder, sourcemaps, entity, production}):
\* [lost, m]
minifyCss(m, ref, destFolder, sourcemaps, production, ioOk, fs) ==
    CssReviewed(m, ref,
                reviewTargetEntity(Ent(m.reg, ref), destFolder, production, TRUE, sourcemaps, fs),
                sourcemaps, production, ioOk, fs)

\* minifyJs: entity.code = result.code, entity.sourcemapContent = result.map
JsCoded(e, data, mapped) ==
    [e EXCEPT !.originalContent = data,
              !.code = UglifyCode(data),
              !.sourcemapContent = IF mapped THEN SourceMapOf(data) ELSE @]

\* minifyJs once reviewTargetEntity has returned r
JsReviewed(m, ref, r, sourcemaps, production, ioOk, fs) ==
    IF r.lost THEN [lost |-> TRUE, m |-> m]
    ELSE IF ~existsSync(fs, r.e.sourcePath) THEN [lost |-> FALSE, m |-> SetEnt(m, ref, r.e)]
    ELSE IF UglifyError(ReadFile(fs, r.e.sourcePath))
    THEN [lost |-> FALSE,
          m |-> SetEnt(m, ref, [r.e EXCEPT !.originalContent = ReadFile(fs, r.e.sourcePath)])]
    ELSE [lost |-> FALSE,
          m |-> applyChangesFromEntity(
                    addProdCode(m, ref,
                                JsCoded(r.e, ReadFile(fs, r.e.sourcePath),
                                        ~production /\ sourcemaps),
                                production),
                    ref, FALSE, ioOk, fs)]

\* minifyJs({htmlContent, destFolder, sourcemaps, entity, production})
minifyJs(m, ref, destFolder, sourcemaps, production, ioOk, fs) ==
    JsReviewed(m, ref,
               reviewTargetEntity(Ent(m.reg, ref), destFolder, production, TRUE, sourcemaps, fs),
               sourcemaps, production, ioOk, fs)

\* to-esm's transpileFiles writes the bundle at entity.targetPath
Bundled(m, ref, e, fs) ==
    [SetEnt(m, ref, e) EXCEPT
        !.out = WriteFile(MkdirP(@, e.targetPath.dir), e.targetPath,
                          <<[esm |-> ReadFile(fs, e.sourcePath)]>>)]

\* minifyEsm once reviewTargetEntity has returned r
EsmReviewed(m, ref, r, ioOk, fs) ==
    IF r.lost THEN [lost |-> TRUE, m |-> m]
    ELSE IF ~(/\ existsSync(fs, r.e.sourcePath)
              /\ ~UglifyError(ReadFile(fs, r.e.sourcePath))
              /\ ioOk)
    THEN [lost |-> FALSE, m |-> SetEnt(m, ref, r.e)]
    ELSE [lost |-> FALSE,
          m |-> applyChangesFromEntity(Bundled(m, ref, r.e, fs), ref, TRUE, ioOk, fs)]

\* minifyEsm({htmlContent, destFolder, sourcemaps, entity, production})
minifyEsm(m, ref, destFolder, sourcemaps, production, ioOk, fs) ==
    EsmReviewed(m, ref,
                reviewTargetEntity(Ent(m.reg, ref), destFolder, production, TRUE, sourcemaps, fs),
                ioOk, fs)

Manifest == S(<<"m", "a", "n", "i", "f", "e", "s", "t", ".", "j", "s", "o", "n">>)

\* copyGeneric: the second call of applyChangesFromEntity
CopiedOnce(m, ref, e, ioOk, fs) ==
    IF e.fullname # Manifest THEN applyChangesFromEntity(m, ref, FALSE, ioOk, fs) ELSE m

\* copyGeneric once reviewTargetEntity has returned r
GenericReviewed(m, ref, r, ioOk, fs) ==
    IF indexOf(r.e.sourcePath.file, Manifest) > 0
    THEN IF ~existsSync(fs, r.e.sourcePath)
         THEN [lost |-> FALSE, m |-> SetEnt(m, ref, r.e)]
         ELSE [lost |-> FALSE,
               m |-> CopiedOnce(applyChangesFromEntity(
                                    Nested(SetEnt(m, ref, r.e), r.e, "src", "extras", fs),
                                    ref, FALSE, ioOk, fs),
                                ref, r.e, ioOk, fs)]
    ELSE [lost |-> FALSE, m |-> CopiedOnce(SetEnt(m, ref, r.e), ref, r.e, ioOk, fs)]

\* copyGeneric({htmlContent, destFolder, entity})
copyGeneric(m, ref, destFolder, ioOk, fs) ==
    GenericReviewed(m, ref,
                    reviewTargetEntity(Ent(m.reg, ref), destFolder, FALSE, FALSE, FALSE, fs),
                    ioOk, fs)

\* copyEntity(entity, destFolder, htmlContent, {minify, sourcemaps, production})
copyEntity(m, ref, destFolder, minify, sourcemaps, production, ioOk, fs) ==
    IF minify
    THEN IF ref[1] = "css" THEN minifyCss(m, ref, destFolder, sourcemaps, production, ioOk, fs)
         ELSE IF ref[1] = "script" THEN minifyJs(m, ref, destFolder, sourcemaps, production, ioOk, fs)
         ELSE IF ref[1] = "esm" THEN minifyEsm(m, ref, destFolder, sourcemaps, production, ioOk, fs)
         ELSE [lost |-> FALSE, m |-> m]
    ELSE copyGeneric(m, ref, destFolder, ioOk, fs)

-----------------------------------------------------------------------------
(* builder.cjs: the production coalescing pass *)

\* the text generateTag accumulates in bigCode: per entity a comment naming
\* its pathname, then its code when it has some
RECURSIVE BigCode(_)
BigCode(list) ==
    IF list = <<>> THEN <<>>
    ELSE <<[comment |-> Head(list).pathname]>> \o Head(list).code \o BigCode(Tail(list))

\* generateTag(entitiesSpecificsList, outputFolder).  canWrite: whether
\* fs.writeFileSync succeeds.  An empty list makes entitiesSpecificsList[0]
\* undefined, the TypeError is caught and null is returned.
generateTag(list, outputFolder, out, canWrite) ==
    IF list = <<>> \/ ~canWrite
    THEN [ok |-> FALSE, html |-> <<>>, out |-> out]
    ELSE LET currentCategory == list[1].category
             extension == list[1].ext
             bigCode == BigCode(list)
             filename == getHashFromText(bigCode) \o extension
             filepath == joinPath(outputFolder, filename)
             href == <<Dot, Slash>> \o filename
             out2 == WriteFile(out, filepath, bigCode)
         IN  IF currentCategory = "css"
             THEN [ok |-> TRUE, out |-> out2,
                   html |-> <<Tag("link", "href", href, TRUE, FALSE, FALSE)>>]
             ELSE IF currentCategory = "script"
             THEN [ok |-> TRUE, out |-> out2,
                   html |-> <<Tag("script", "src", href, FALSE, FALSE, FALSE)>>]
             ELSE [ok |-> TRUE, out |-> out2,
                   html |-> <<Tag("link", "href", href, FALSE, FALSE, FALSE),
                              WS, Text("<!-- Unknown category -->")>>]

\* newHtml += generateTag(...): a null result is appended as the text "null"
Appended(newHtml, g) == newHtml \o (IF g.ok THEN g.html ELSE <<Text("null")>>)

\* the loop of buildProductionTargets from segment i on; st holds the
\* locals newHtml, entitiesSpecificsList, currentCategory and the output tree
RECURSIVE BptLoop(_, _, _, _)
BptLoop(htmlParts, i, st, ctx) ==
    IF i > Len(htmlParts) THEN st
    ELSE
    LET htmlPart == trim(htmlParts[i])
        found == getCodeTagID(htmlPart, ctx.prod, ctx.ents)
        g == generateTag(st.list, ctx.outputFolder, st.out, ctx.canWrite)
    IN  IF htmlPart = <<>> THEN BptLoop(htmlParts, i + 1, st, ctx)
        ELSE IF found = Null
        THEN IF st.list # <<>>
             THEN BptLoop(htmlParts, i + 1,
                          [st EXCEPT !.newHtml = Appended(st.newHtml, g) \o htmlPart,
                                     !.list = <<>>, !.out = g.out,
                                     !.flushes = Append(st.flushes, st.list)], ctx)
             ELSE BptLoop(htmlParts, i + 1,
                          [st EXCEPT !.newHtml = st.newHtml \o htmlPart], ctx)
        ELSE IF st.cur = ""
        THEN BptLoop(htmlParts, i + 1,
                     [st EXCEPT !.list = <<found.e>>, !.cur = found.e.category], ctx)
        ELSE IF found.e.category # st.cur
        THEN BptLoop(htmlParts, i + 1,
                     [st EXCEPT !.newHtml = Appended(st.newHtml, g),
                                !.list = <<found.e>>, !.cur = found.e.category,
                                !.out = g.out,
                                !.flushes = Append(st.flushes, st.list)], ctx)
        ELSE BptLoop(htmlParts, i + 1,
                     [st EXCEPT !.list = Append(st.list, found.e)], ctx)

\* buildProductionTargets({outputFolder, htmlContent}): the returned text,
\* the output tree, and (not a value of the program) the list handed to each
\* call of generateTag, in call order.  No flush follows the loop.
buildProductionTargets(outputFolder, htmlContent, prodIdx, ents, out, canWrite) ==
    LET st == BptLoop(SplitOn(htmlContent, Delim), 1,
                      [newHtml |-> <<>>, list |-> <<>>, cur |-> "", out |-> out,
                       flushes |-> <<>>],
                      [outputFolder |-> outputFolder, prod |-> prodIdx,
                       ents |-> ents, canWrite |-> canWrite])
    IN  [html |-> st.newHtml, out |-> st.out, flushes |-> st.flushes,
         pending |-> st.list]

-----------------------------------------------------------------------------
(* The pipeline at rest (the function-level specifications leave it so) *)

NoCli == [minifyHtml |-> FALSE, minifyCss |-> FALSE, minifyJs |-> FALSE,
          sourcemaps |-> FALSE, development |-> FALSE, staging |-> FALSE,
          production |-> FALSE, all |-> FALSE, noserver |-> FALSE]
NoPass == [buildType |-> "", doc |-> 0, read |-> FALSE, html |-> <<>>, text |-> <<>>,
           outputFolder |-> <<>>, minifyCss |-> FALSE, minifyJs |-> FALSE,
           sourcemaps |-> FALSE, cat |-> 0, i |-> 0]
NoHist == [written |-> {}, started |-> {}, failed |-> {}, processed |-> {},
           missing |-> {}, stale |-> {}, served |-> {}, requests |-> <<>>,
           order |-> <<>>, faults |-> 0]
EmptyRegistry == [c \in Categories |-> <<>>]

PipeIdle ==
    /\ pc = "off"
    /\ cli = NoCli
    /\ inputs = <<>>
    /\ files = {}
    /\ disk = {}
    /\ rootFolders = <<>>
    /\ entities = EmptyRegistry
    /\ lookup = {}
    /\ prod = {}
    /\ pass = NoPass
    /\ hist = NoHist

FnIdle == fn = "" /\ arg = Null /\ res = Null

-----------------------------------------------------------------------------
(* Specification SpecLookup: lookupRootPath over every Root Set and tree *)

DirA == <<S(<<"A">>)>>
DirB == <<S(<<"B">>)>>
DirC == <<S(<<"C">>)>>
NodeModules == <<S(<<"n", "m">>)>>
RootDirs == {DirA, DirB, DirC, NodeModules}

ACss == S(<<"a", ".", "c", "s", "s">>)
BJs == S(<<"b", ".", "j", "s">>)
Raw(c) == <<[raw |-> c]>>

\* the places where the file a uri names may lie: under each root, and at
\* the path the uri spells out itself
Places(uri) == {joinPath(d, uri) : d \in RootDirs} \cup {ToPath(uri)}

InitLookup ==
    /\ PipeIdle
    /\ fn = "lookupRootPath"
    /\ res = Pending
    /\ \E uri \in {<<Slash>> \o ACss, <<Slash>> \o BJs},
          roots \in SeqsNoDup(RootDirs, MaxRoots + 1),
          where \in SUBSET Places(<<Slash>> \o ACss) :
          arg = [uri |-> uri, roots |-> roots,
                 fs |-> {[path |-> q, data |-> Raw("c1")] : q \in where}]

CallLookupRootPath ==
    /\ fn = "lookupRootPath"
    /\ res = Pending
    /\ res' = lookupRootPath(arg.uri, arg.roots, arg.fs)
    /\ UNCHANGED <<fn, arg, pipeVars>>

NextLookup == CallLookupRootPath

SpecLookup == InitLookup /\ [][NextLookup]_vars

-----------------------------------------------------------------------------
(* Specification SpecBPT: buildProductionTargets over every working text   *)
(* made of placeholders, markup and white space                            *)

OutDir == <<S(<<"o", "u", "t">>), S(<<"p", "r", "o", "d">>)>>
Min1(c) == <<[min |-> c]>>

BptEntity(cat, i, file, code) ==
    [NewEntity(Tok("tag"), <<Dot, Slash>> \o file) EXCEPT
        !.category = cat, !.tagID = <<cat, i>>,
        !.pathname = <<Slash>> \o file,
        !.ext = From(file, lastIndexOf(file, <<Dot>>)),
        !.code = code]

BptEntities ==
    [EmptyRegistry EXCEPT
        !["css"] = <<BptEntity("css", 0, ACss, Min1("c1")),
                     BptEntity("css", 1, S(<<"s", ".", "c", "s", "s">>), <<>>)>>,
        !["script"] = <<BptEntity("script", 0, BJs, Min1("c2"))>>]

BptIds == {<<"css", 0>>, <<"css", 1>>, <<"script", 0>>}
BptItems == {Replacement(id) : id \in BptIds} \cup {<<Text("m")>>, <<WS>>}

\* a placeholder stands for one tag: it occurs at most once in a text
BptTexts ==
    {Flatten(q) : q \in {r \in SeqsUpTo(BptItems, MaxItems) :
        \A i, j \in 1..Len(r) : (i # j /\ r[i] = r[j]) => Len(r[i]) = 1}}

InitBPT ==
    /\ PipeIdle
    /\ fn = "buildProductionTargets"
    /\ res = Pending
    /\ \E h \in BptTexts, idx \in SUBSET BptIds, w \in BOOLEAN :
          arg = [htmlContent |-> h, prod |-> idx, ents |-> BptEntities,
                 outputFolder |-> OutDir, canWrite |-> w]

CallBuildProductionTargets ==
    /\ fn = "buildProductionTargets"
    /\ res = Pending
    /\ res' = buildProductionTargets(arg.outputFolder, arg.htmlContent, arg.prod,
                                     arg.ents, {}, arg.canWrite)
    /\ UNCHANGED <<fn, arg, pipeVars>>

NextBPT == CallBuildProductionTargets

SpecBPT == InitBPT /\ [][NextBPT]_vars

-----------------------------------------------------------------------------
(* builder.cjs: the steps of copyAssetsFromHTML, generateBuild and         *)
(* generateAllHTMLs that come before and after the transforms               *)

\* the positions removed by htmlContent.replace(/start.*end/gis, ""): the
\* pattern is greedy, so the match runs from the first opening marker of the
\* build type to the last closing marker of the build type that follows it
Stripped(htmlContent, buildType) ==
    LET opens == {i \in 1..Len(htmlContent) : htmlContent[i] = OpenM(buildType)}
        closes == {j \in 1..Len(htmlContent) : htmlContent[j] = CloseM(buildType)}
    IN  IF opens = {} \/ closes = {} \/ Max(closes) < Min(opens) THEN {}
        ELSE Min(opens)..Max(closes)

\* reviewHTML(htmlContent, buildType)
reviewHTML(htmlContent, buildType) ==
    LET gone == Stripped(htmlContent, buildType)
        keep == {i \in 1..Len(htmlContent) : i \notin gone}
        Nth(n) == CHOOSE i \in keep : Cardinality({j \in keep : j < i}) = n - 1
    IN  [n \in 1..Cardinality(keep) |-> htmlContent[Nth(n)]]

\* strip-html-comments: every comment goes, the remove-markers included
stripHtmlComments(htmlContent) ==
    SelectSeq(htmlContent, LAMBDA tk : tk.k \notin {"open", "close"})

\* html-minifier with collapseWhitespace: white space between the items of
\* the text goes
minifierHtml(htmlContent) == SelectSeq(htmlContent, LAMBDA tk : tk.k # "ws")

\* setRoots(htmlPathFolder, roots): the directory of the entry document, the
\* user's roots, node_modules when it exists, without repetition
RECURSIVE Dedup(_)
Dedup(q) ==
    IF q = <<>> THEN <<>>
    ELSE LET front == Dedup(Front(q))
         IN  IF \E i \in 1..Len(front) : front[i] = Last(q) THEN front
             ELSE Append(front, Last(q))

setRoots(htmlPathFolder, roots, cwd, fs) ==
    Dedup((IF htmlPathFolder # <<>> THEN <<htmlPathFolder>> ELSE <<>>)
          \o roots
          \o (IF DirExists(fs, cwd \o NodeModules) THEN <<cwd \o NodeModules>> ELSE <<>>))

\* generateBuild without the production override (mutation)
generateBuild_KeepFlags(outputFolder, parsedDir, opts, buildType) ==
    [outputFolder |-> IF buildType = "production" THEN outputFolder
                      ELSE outputFolder \o parsedDir,
     minifyHtml |-> opts.minifyHtml,
     minifyCss |-> opts.minifyCss,
     minifyJs |-> opts.minifyJs,
     sourcemaps |-> opts.sourcemaps,
     production |-> buildType = "production"]

\* generateBuild(outputFolder, htmlPath, options): the folder and the options
\* it hands to copyAssetsFromHTML.  parsedDir: path.parse(htmlPath).dir, a
\* relative directory.
generateBuild(outputFolder, parsedDir, opts, buildType) ==
    [outputFolder |-> IF buildType = "production" THEN outputFolder
                      ELSE outputFolder \o parsedDir,
     minifyHtml |-> opts.minifyHtml,
     minifyCss |-> IF buildType = "production" THEN TRUE ELSE opts.minifyCss,
     minifyJs |-> IF buildType = "production" THEN TRUE ELSE opts.minifyJs,
     sourcemaps |-> IF buildType = "production" THEN FALSE ELSE opts.sourcemaps,
     production |-> buildType = "production"]

\* the five extraction passes of copyAssetsFromHTML over the tags, in order
ExtractionPasses ==
    << [tagName |-> "link", sourceRefName |-> "href", extraProperty |-> "stylesheet",
        category |-> "css", referenceDir |-> <<>>],
       [tagName |-> "\\w+", sourceRefName |-> "href", extraProperty |-> "",
        category |-> "generic", referenceDir |-> <<>>],
       [tagName |-> "script", sourceRefName |-> "src", extraProperty |-> "module",
        category |-> "esm", referenceDir |-> <<>>],
       [tagName |-> "script", sourceRefName |-> "src", extraProperty |-> "",
        category |-> "script", referenceDir |-> <<>>],
       [tagName |-> "\\w+", sourceRefName |-> "src", extraProperty |-> "",
        category |-> "medias", referenceDir |-> <<>>] >>

RECURSIVE ExtractAll(_, _, _)
ExtractAll(passes, st, env) ==
    IF passes = <<>> THEN st
    ELSE ExtractAll(Tail(passes), extractEntities(st.content, st.reg, Head(passes), env), env)

\* the order of the copyEntities calls of copyAssetsFromHTML
CopyOrder == <<"css", "generic", "medias", "esm", "script", "extras">>

\* the loops of copyEntities running from the last index down (mutation)
RECURSIVE Seek_Reversed(_, _, _)
Seek_Reversed(ents, cat, i) ==
    IF cat > Len(CopyOrder) THEN [cat |-> cat, i |-> 0]
    ELSE IF i < Len(ents[CopyOrder[cat]])
    THEN [cat |-> cat, i |-> Len(ents[CopyOrder[cat]]) - 1 - i]
    ELSE Seek_Reversed(ents, cat + 1, 0)

\* the next entity the copyEntities loops reach from position (cat, i); each
\* loop reads the length of its list anew
RECURSIVE Seek(_, _, _)
Seek(ents, cat, i) ==
    IF cat > Len(CopyOrder) THEN [cat |-> cat, i |-> 0]
    ELSE IF i < Len(ents[CopyOrder[cat]]) THEN [cat |-> cat, i |-> i]
    ELSE Seek(ents, cat + 1, 0)

-----------------------------------------------------------------------------
(* Specification Spec: init() over entry documents, options and faults     *)

\* entry documents of an invocation
MaxDocs == 2
\* items (tags, marked regions) of a generated entry document
MaxTags == 3
\* entities of the category extras beyond which a run is not followed; a
\* run whose manifests reference no manifest registers at most this many
MaxExtras == 3
\* faults of the environment in one run (a source file deleted before its
\* transform, an output directory that cannot be created)
MaxFaults == 1

Cwd == <<S(<<"w">>)>>
Pages == <<S(<<"p", "g">>)>>
Out == Cwd \o <<S(<<"o", "u", "t">>)>>

SCss == S(<<"s", ".", "c", "s", "s">>)
MJs == S(<<"m", ".", "j", "s">>)
PPng == S(<<"p", ".", "p", "n", "g">>)
KJs == S(<<"k", ".", "j", "s">>)
Rel(file) == <<Dot, Slash>> \o file

LinkA == Tag("link", "href", Rel(ACss), TRUE, FALSE, FALSE)
LinkAUp == Tag("link", "href", Rel(ACss), TRUE, FALSE, TRUE)
LinkS == Tag("link", "href", Rel(SCss), TRUE, FALSE, FALSE)
ScriptB == Tag("script", "src", Rel(BJs), FALSE, FALSE, FALSE)
ScriptM == Tag("script", "src", Rel(MJs), FALSE, TRUE, FALSE)
ImgP == Tag("img", "src", Rel(PPng), FALSE, FALSE, FALSE)
ScriptK == Tag("script", "src", Rel(KJs), FALSE, FALSE, FALSE)

\* <!-- to-build remove m -->X<!-- /to-build remove m -->, X naming m
Region(m) == <<OpenM(m), Text(m), CloseM(m)>>

DocItems == {<<LinkA>>, <<LinkAUp>>, <<ScriptB>>,
             Region("production"), Region("staging")}
DocTexts == {Flatten(q) : q \in SeqsUpTo(DocItems, MaxTags)}

\* the assets: each lies beside every entry document
Assets ==
    {[path |-> [dir |-> d, file |-> ACss], data |-> Raw("c1")] : d \in {Cwd, Cwd \o Pages}}
    \cup {[path |-> [dir |-> d, file |-> BJs], data |-> Raw("c2")] : d \in {Cwd, Cwd \o Pages}}
    \cup {[path |-> [dir |-> d, file |-> SCss], data |-> Raw("c3")] : d \in {Cwd, Cwd \o Pages}}
    \cup {[path |-> [dir |-> Cwd, file |-> MJs], data |-> Raw("c4")],
          [path |-> [dir |-> Cwd, file |-> PPng], data |-> Raw("c5")],
          \* a script the minifier rejects
          [path |-> [dir |-> Cwd \o Pages, file |-> KJs], data |-> Raw("bad")]}

\* the directory generateAllHTMLs adds to the output folder for a build type
ModeDir(buildType) == <<S(<<buildType>>)>>

\* the entities of a registry
AllEntities(ents) == UNION {{ents[c][k] : k \in 1..Len(ents[c])} : c \in Categories}

\* an entry document ./<dir>/<base> as [dir, base]
IndexDoc == [dir |-> <<>>, base |-> S(<<"i", ".", "h">>)]
PageDoc == [dir |-> Pages, base |-> S(<<"x", ".", "h">>)]
BareDoc == [dir |-> Pages, base |-> S(<<"e", ".", "h">>)]
GoneDoc == [dir |-> <<>>, base |-> S(<<"g", ".", "h">>)]
DocPath(doc) == [dir |-> Cwd \o doc.dir, file |-> doc.base]

\* the documents of the invocations of several entry documents
Catalogue ==
    {[path |-> DocPath(IndexDoc),
      data |-> <<LinkS, WS, LinkA, WS, ScriptB, WS, ScriptM, WS, ImgP>>],
     [path |-> DocPath(PageDoc), data |-> <<LinkS, ScriptK>>],
     [path |-> DocPath(BareDoc), data |-> <<Text("m")>>]}

ModeSets == {<<TRUE, FALSE>>, <<FALSE, TRUE>>, <<TRUE, TRUE>>}

\* the mode options of the command line as getBooleanOptionValue reads them
\* (an option that is not given reads false)
ModeOptions ==
    [development : BOOLEAN, staging : BOOLEAN, production : BOOLEAN, all : BOOLEAN]

\* init(): the modes that are run for the mode options given
Modes(c) ==
    [development |-> c.all \/ c.development,
     staging |-> c.all \/ c.staging \/ ~(c.development \/ c.staging \/ c.production),
     production |-> c.all \/ c.production]

\* the state init() starts from: the options read, the output folder made.
\* Three families of invocations: one generated document, built for staging,
\* production or both without servers; two documents of the catalogue, with
\* servers; one document of the catalogue under every choice of the mode
\* options and of --noserver.
Init ==
    /\ FnIdle
    /\ pc = "boot"
    /\ \E c \in BOOLEAN, j \in BOOLEAN, m \in BOOLEAN, h \in BOOLEAN :
       \/ \E text \in DocTexts, ms \in ModeSets :
             /\ inputs = <<IndexDoc>>
             /\ files = Assets \cup {[path |-> DocPath(IndexDoc), data |-> text]}
             \* these documents hold no white space: the minifier is left on
             /\ h
             /\ cli = [minifyHtml |-> h, minifyCss |-> c, minifyJs |-> j,
                       sourcemaps |-> m, development |-> FALSE, staging |-> ms[1],
                       production |-> ms[2], all |-> FALSE, noserver |-> TRUE]
       \/ \E ms \in ModeSets :
             /\ inputs \in {q \in SeqsNoDup({IndexDoc, PageDoc, BareDoc, GoneDoc}, MaxDocs) :
                               Len(q) = MaxDocs}
             /\ files = Assets \cup Catalogue
             /\ cli = [minifyHtml |-> h, minifyCss |-> c, minifyJs |-> j,
                       sourcemaps |-> m, development |-> FALSE, staging |-> ms[1],
                       production |-> ms[2], all |-> FALSE, noserver |-> FALSE]
       \/ \E mo \in ModeOptions, ns \in BOOLEAN :
             /\ inputs = <<IndexDoc>>
             /\ files = Assets \cup Catalogue
             /\ c /\ j /\ m
             /\ cli = [minifyHtml |-> h, minifyCss |-> c, minifyJs |-> j,
                       sourcemaps |-> m, development |-> mo.development,
                       staging |-> mo.staging, production |-> mo.production,
                       all |-> mo.all, noserver |-> ns]
    /\ disk = MkdirP({}, Out)
    /\ rootFolders = <<>>
    /\ entities = EmptyRegistry
    /\ lookup = {}
    /\ prod = {}
    /\ pass = NoPass
    /\ hist = NoHist

\* where init() goes on once generateAllHTMLs has returned for a build type
After(buildType) == IF buildType = "staging" THEN "mid" ELSE "done"

\* the requests startServer({name, noserver}) makes to the preview-server
\* coordinator: none with noserver; otherwise stopServer asks whether the
\* server is up and asks to stop it only when it is, then the start request
\* follows.  up: the answer of isGenserverUp.
startServer(name, noserver, up) ==
    IF noserver THEN <<>>
    ELSE <<[op |-> "isUp", name |-> name]>>
         \o (IF up THEN <<[op |-> "stop", name |-> name]>> ELSE <<>>)
         \o <<[op |-> "start", name |-> name]>>

\* init(): if (development) { setRoots(null, root); startDevelopmentServer }
StartDevelopment ==
    /\ pc = "boot"
    /\ pc' = "init"
    /\ IF Modes(cli).development
       THEN /\ rootFolders' = setRoots(<<>>, <<>>, Cwd, files)
            /\ \E up \in BOOLEAN :
                  hist' = [hist EXCEPT
                             !.requests = @ \o startServer("development", cli.noserver, up)]
       ELSE UNCHANGED <<rootFolders, hist>>
    /\ UNCHANGED <<fnVars, cli, inputs, files, disk, entities, lookup, prod, pass>>

\* init(): if (staging) ... / if (production) ...: generateAllHTMLs is
\* entered for the build type, or passed over
StartMode ==
    /\ pc \in {"init", "mid"}
    /\ LET buildType == IF pc = "init" THEN "staging" ELSE "production"
       IN  IF Modes(cli)[buildType]
           THEN /\ pc' = "loop"
                /\ pass' = [NoPass EXCEPT !.buildType = buildType, !.doc = 1]
           ELSE /\ pc' = After(buildType)
                /\ pass' = pass
    /\ UNCHANGED <<fnVars, cli, inputs, files, disk, rootFolders, entities, lookup, prod, hist>>

\* copyAssetsFromHTML: the text handed to the extraction passes
WorkingText(raw, buildType, minifyHtml) ==
    IF minifyHtml THEN minifierHtml(stripHtmlComments(reviewHTML(raw, buildType)))
    ELSE stripHtmlComments(reviewHTML(raw, buildType))

\* a throw reaches the catch that encloses the loop of generateAllHTMLs: the
\* build type is over, without its server
Thrown(stamp, faults) ==
    /\ pc' = After(pass.buildType)
    /\ hist' = [hist EXCEPT !.faults = @ + faults,
                            !.started = @ \cup {stamp},
                            !.failed = @ \cup {stamp}]
    /\ UNCHANGED <<disk, entities, lookup, prod, pass>>

\* the options and the folder generateBuild hands on
Opted(gb) ==
    [pass EXCEPT !.outputFolder = gb.outputFolder, !.minifyCss = gb.minifyCss,
                 !.minifyJs = gb.minifyJs, !.sourcemaps = gb.sourcemaps]

\* readFileSync of the entry document throws: copyAssetsFromHTML returns
\* null and generateBuild {outputFolder, htmlContent: null}
Unread(stamp, gb) ==
    /\ pc' = "write"
    /\ disk' = MkdirP(disk, Out \o ModeDir(pass.buildType))
    /\ pass' = [Opted(gb) EXCEPT !.read = FALSE, !.html = <<>>, !.text = <<>>]
    /\ hist' = [hist EXCEPT !.started = @ \cup {stamp}]
    /\ UNCHANGED <<entities, lookup, prod>>

\* the extraction passes are over and the first loop of copyEntities begins
Extracted(stamp, gb, text, ex, at) ==
    /\ pc' = IF at.cat > Len(CopyOrder) THEN "write" ELSE "copy"
    /\ disk' = MkdirP(disk, Out \o ModeDir(pass.buildType))
    /\ entities' = ex.reg.ents
    /\ lookup' = ex.reg.lookup
    /\ pass' = [Opted(gb) EXCEPT !.read = TRUE, !.html = ex.content, !.text = text,
                                 !.cat = at.cat, !.i = at.i]
    /\ hist' = [hist EXCEPT
                  !.started = @ \cup {stamp},
                  !.stale = @ \cup {[at |-> stamp, of |-> e.regPass, tagID |-> e.tagID] :
                                      e \in AllEntities(entities)}]
    /\ UNCHANGED prod

Extracting(stamp, gb, text, ex) == Extracted(stamp, gb, text, ex, Seek(ex.reg.ents, 1, 0))

Reading(stamp, gb, text) ==
    Extracting(stamp, gb, text,
               ExtractAll(ExtractionPasses,
                          [content |-> text,
                           reg |-> [ents |-> entities, lookup |-> lookup, prod |-> prod]],
                          [roots |-> rootFolders', fs |-> files, stamp |-> stamp]))

Building(stamp, doc, gb, mkdirOk) ==
    IF ~mkdirOk THEN Thrown(stamp, 1)
    ELSE IF ~existsSync(files, DocPath(doc)) THEN Unread(stamp, gb)
    ELSE Reading(stamp, gb,
                 WorkingText(ReadFile(files, DocPath(doc)), pass.buildType, gb.minifyHtml))

\* one iteration of the loop of generateAllHTMLs up to the first await of a
\* transform: setRoots, generateBuild (mkdir), copyAssetsFromHTML (read,
\* directives, comments, minifier, extraction).  A throw of mkdirSync makes
\* generateBuild return null; result.htmlContent then throws.
BeginDoc ==
    /\ pc = "loop"
    /\ pass.doc <= Len(inputs)
    /\ rootFolders' = setRoots(Cwd \o inputs[pass.doc].dir, <<>>, Cwd, files)
    /\ \E mkdirOk \in IF hist.faults < MaxFaults THEN BOOLEAN ELSE {TRUE} :
          Building(<<pass.buildType, pass.doc>>, inputs[pass.doc],
                   generateBuild(Out \o ModeDir(pass.buildType), inputs[pass.doc].dir,
                                 cli, pass.buildType),
                   mkdirOk)
    /\ UNCHANGED <<fnVars, cli, inputs, files>>

\* the environment deletes the source file of the entity the loop is about
\* to transform
Unlink ==
    /\ pc = "copy"
    /\ hist.faults < MaxFaults
    /\ existsSync(files, Ent([ents |-> entities], <<CopyOrder[pass.cat], pass.i>>).sourcePath)
    /\ files' = {f \in files :
                   f.path # Ent([ents |-> entities], <<CopyOrder[pass.cat], pass.i>>).sourcePath}
    /\ hist' = [hist EXCEPT !.faults = @ + 1]
    /\ UNCHANGED <<fnVars, pc, cli, inputs, disk, rootFolders, entities, lookup, prod, pass>>

\* what the run shows of one call of copyEntity
Seen(stamp, before, minify, sourcemaps) ==
    [hist EXCEPT
        !.processed = @ \cup {[at |-> stamp, of |-> before.regPass, tagID |-> before.tagID,
                               minify |-> minify, sourcemaps |-> sourcemaps]},
        !.order = Append(@, [at |-> stamp, tagID |-> before.tagID]),
        !.missing = IF existsSync(files, before.sourcePath) THEN @
                    ELSE @ \cup {[at |-> stamp, tagID |-> before.tagID]}]

\* copyEntity has returned r.m: on to the entity at position `at`
Moved(category, r, at) ==
    /\ pc' = IF at.cat > Len(CopyOrder) THEN "write" ELSE "copy"
    /\ disk' = r.m.out
    /\ entities' = r.m.reg.ents
    /\ lookup' = r.m.reg.lookup
    /\ prod' = r.m.reg.prod
    /\ pass' = [pass EXCEPT !.html = IF category = "extras" THEN @ ELSE r.m.html,
                            !.cat = at.cat, !.i = at.i]

Copied(category, r) ==
    IF r.lost
    THEN /\ pc' = "crashed"
         /\ UNCHANGED <<disk, entities, lookup, prod, pass>>
    ELSE Moved(category, r, Seek(r.m.reg.ents, pass.cat, pass.i + 1))

Copying(category, ref, minify, sourcemaps) ==
    /\ hist' = Seen(<<pass.buildType, pass.doc>>, Ent([ents |-> entities], ref),
                    minify, sourcemaps)
    /\ Copied(category,
              copyEntity([html |-> pass.html,
                          reg |-> [ents |-> entities, lookup |-> lookup, prod |-> prod],
                          out |-> disk],
                         ref, pass.outputFolder, minify, sourcemaps,
                         pass.buildType = "production", TRUE, files))

\* one iteration of a loop of copyEntities: await copyEntity(entity, ...),
\* then on to the next entity, the next category, or the return of
\* generateBuild.  The text copyEntities(EXTRAS) returns is dropped.  When
\* getHashFromFile never settles, the process does not go on.
CopyEntity ==
    /\ pc = "copy"
    /\ Len(entities["extras"]) <= MaxExtras
    /\ Copying(CopyOrder[pass.cat], <<CopyOrder[pass.cat], pass.i>>,
               IF CopyOrder[pass.cat] = "css" THEN pass.minifyCss
               ELSE IF CopyOrder[pass.cat] \in {"esm", "script"} THEN pass.minifyJs
               ELSE FALSE,
               CopyOrder[pass.cat] \in {"css", "esm", "script"} /\ pass.sourcemaps)
    /\ UNCHANGED <<fnVars, cli, inputs, files, rootFolders>>

\* the HTML is on disk; for production buildProductionTargets runs, and its
\* text is kept in result and written nowhere
Coalesced(stamp, htmlContent, bpt) ==
    /\ pc' = "loop"
    /\ disk' = bpt.out
    /\ pass' = [pass EXCEPT !.doc = @ + 1]
    /\ hist' = [hist EXCEPT
                  !.written = @ \cup {[at |-> stamp, read |-> pass.read, text |-> pass.text,
                                       html |-> htmlContent, result |-> bpt.html]},
                  !.failed = IF pass.read THEN @ ELSE @ \cup {stamp}]

Written(stamp, htmlContent, written) ==
    Coalesced(stamp, htmlContent,
              IF pass.buildType = "production" /\ pass.read
              THEN buildProductionTargets(pass.outputFolder, htmlContent, prod, entities,
                                          written, TRUE)
              ELSE [html |-> htmlContent, out |-> written])

Finishing(stamp, htmlContent, targetHtmlPath, coerce) ==
    IF ~coerce \/ ~CanWriteTo(disk, targetHtmlPath)
    THEN Thrown(stamp, 0)
    ELSE Written(stamp, htmlContent, WriteFile(disk, targetHtmlPath, htmlContent))

\* the rest of the iteration of generateAllHTMLs: reviewHTML, writeFileSync
\* of the HTML, and for production buildProductionTargets.
\* fs.writeFileSync throws when the directory is missing; handed null (the
\* document could not be read) it throws or writes the text "null", as the
\* version of Node decides.
FinishDoc ==
    /\ pc = "write"
    /\ \E coerce \in IF pass.read THEN {TRUE} ELSE BOOLEAN :
          Finishing(<<pass.buildType, pass.doc>>,
                    IF pass.read THEN reviewHTML(pass.html, pass.buildType)
                    ELSE <<Text("null")>>,
                    [dir |-> pass.outputFolder, file |-> inputs[pass.doc].base],
                    coerce)
    /\ UNCHANGED <<fnVars, cli, inputs, files, rootFolders, entities, lookup, prod>>

\* the loop of generateAllHTMLs is over: the server of the build type is
\* started and init() goes on
EndMode ==
    /\ pc = "loop"
    /\ pass.doc > Len(inputs)
    /\ pc' = After(pass.buildType)
    /\ \E up \in BOOLEAN :
          hist' = [hist EXCEPT
                     !.served = @ \cup {pass.buildType},
                     !.requests = @ \o startServer(pass.buildType, cli.noserver, up)]
    /\ UNCHANGED <<fnVars, cli, inputs, files, disk, rootFolders, entities, lookup, prod, pass>>

Next ==
    \/ StartDevelopment
    \/ StartMode
    \/ BeginDoc
    \/ Unlink
    \/ CopyEntity
    \/ FinishDoc
    \/ EndMode

Spec == Init /\ [][Next]_vars

-----------------------------------------------------------------------------
(* Specification SpecNames: the file names of the production output of two  *)
(* builds of the same sources, one of them after a staging pass            *)

\* the loops of copyEntities, one category after the other, from the entity
\* at position `at` on; a transform that never returns ends them
RECURSIVE CopyLoops(_, _, _, _)
CopyAfter(r, at, opts, fs) ==
    IF r.lost THEN r.m
    ELSE CopyLoops([r.m EXCEPT !.html = IF CopyOrder[at.cat] = "extras" THEN opts.html0 ELSE @],
                   Seek(r.m.reg.ents, at.cat, at.i + 1), opts, fs)

CopyLoops(m, at, opts, fs) ==
    IF at.cat > Len(CopyOrder) THEN m
    ELSE CopyAfter(copyEntity(m, <<CopyOrder[at.cat], at.i>>, opts.outputFolder,
                              IF CopyOrder[at.cat] = "css" THEN opts.minifyCss
                              ELSE IF CopyOrder[at.cat] \in {"esm", "script"} THEN opts.minifyJs
                              ELSE FALSE,
                              CopyOrder[at.cat] \in {"css", "esm", "script"} /\ opts.sourcemaps,
                              opts.production, TRUE, fs),
                   at, opts, fs)

\* copyAssetsFromHTML after the extraction ex, into the output tree out:
\* [html, reg, out]
CopyAssets(ex, out, opts, fs) ==
    CopyLoops([html |-> ex.content, reg |-> ex.reg, out |-> out],
              Seek(ex.reg.ents, 1, 0), [opts EXCEPT !.html0 = ex.content], fs)

\* one pass over a text: extraction, then the transforms
PassOver(text, reg, out, opts, fs, stamp) ==
    CopyAssets(ExtractAll(ExtractionPasses, [content |-> text, reg |-> reg],
                          [roots |-> setRoots(Cwd, <<>>, Cwd, fs), fs |-> fs, stamp |-> stamp]),
               MkdirP(out, opts.outputFolder), opts, fs)

PassOptions(buildType, flags) ==
    generateBuild(Out \o ModeDir(buildType), <<>>, flags, buildType)

PassOpts(gb) ==
    [outputFolder |-> gb.outputFolder, minifyCss |-> gb.minifyCss, minifyJs |-> gb.minifyJs,
     sourcemaps |-> gb.sourcemaps, production |-> gb.production, html0 |-> <<>>]

\* generateTag over the stylesheets the production pass registered, in
\* registration order: the bundle of a document whose stylesheets stand side
\* by side
BundleOf(m) ==
    generateTag(SelectSeq(m.reg.ents["css"], LAMBDA e : e.regPass[1] = "production"),
                Out \o ModeDir("production"), m.out, TRUE)

\* the names of the files of the production output
NamesOf(tree) ==
    {f.path.file : f \in {g \in tree : g.path.dir = Out \o ModeDir("production")
                                        /\ g.path.file # <<>>}}

\* a production build of the text, alone or (before) after a staging pass
\* with the flags in the same process
ProductionAfter(text, first, fs) ==
    PassOver(text, first.reg, first.out, PassOpts(PassOptions("production", NoCli)), fs,
             <<"production", 1>>)

ProductionBuild(text, before, flags, fs) ==
    IF before
    THEN ProductionAfter(text,
                         PassOver(text, [ents |-> EmptyRegistry, lookup |-> {}, prod |-> {}],
                                  MkdirP({}, Out), PassOpts(PassOptions("staging", flags)), fs,
                                  <<"staging", 1>>),
                         fs)
    ELSE ProductionAfter(text,
                         [reg |-> [ents |-> EmptyRegistry, lookup |-> {}, prod |-> {}],
                          out |-> MkdirP({}, Out)],
                         fs)

\* the sources: a.css and s.css of chosen content, b.js
NameTrees ==
    {{[path |-> [dir |-> Cwd, file |-> ACss], data |-> a],
      [path |-> [dir |-> Cwd, file |-> SCss], data |-> b],
      [path |-> [dir |-> Cwd, file |-> BJs], data |-> Raw("c2")]} :
        a \in {Raw("c1"), <<>>}, b \in {Raw("c1"), Raw("c3")}}

NameTexts == {Flatten(q) : q \in SeqsUpTo({<<LinkA>>, <<LinkS>>, <<ScriptB>>, <<LinkAUp>>}, MaxTags)}

InitNames ==
    /\ PipeIdle
    /\ fn = "production"
    /\ res = Pending
    /\ \E text \in NameTexts, fs \in NameTrees, c \in BOOLEAN, j \in BOOLEAN, sm \in BOOLEAN :
          arg = [text |-> text, fs |-> fs,
                 flags |-> [NoCli EXCEPT !.minifyCss = c, !.minifyJs = j, !.sourcemaps = sm]]

\* the two builds; of each the names of the files of the production output
\* and the bundle of its stylesheets
Named(m) ==
    [names |-> NamesOf(m.out), bundle |-> NamesOf(BundleOf(m).out) \ NamesOf(m.out),
     entities |-> Len(m.reg.ents["css"]) + Len(m.reg.ents["script"])]

CallProductionBuilds ==
    /\ fn = "production"
    /\ res = Pending
    /\ res' = [alone |-> Named(ProductionBuild(arg.text, FALSE, arg.flags, arg.fs)),
               after |-> Named(ProductionBuild(arg.text, TRUE, arg.flags, arg.fs))]
    /\ UNCHANGED <<fn, arg, pipeVars>>

NextNames == CallProductionBuilds

SpecNames == InitNames /\ [][NextNames]_vars

-----------------------------------------------------------------------------
(* Specification SpecExtract: the five extraction passes over texts whose   *)
(* tags reference resolvable, external, fragment, missing and literal uris  *)

\* <link rel="stylesheet" href="h:x">: a fully-qualified url
LinkExt == Tag("link", "href", S(<<"h", ":", "x">>), TRUE, FALSE, FALSE)
\* <a href="#t">: a bare fragment
AFrag == Tag("a", "href", S(<<"#", "t">>), FALSE, FALSE, FALSE)
\* <link rel="stylesheet" href="./g.css">: no such file
LinkGone == Tag("link", "href", Rel(S(<<"g", ".", "c", "s", "s">>)), TRUE, FALSE, FALSE)
\* <script src="/w/b.js">: the path of the file itself
ScriptAbs == Tag("script", "src", S(<<"/", "w", "/", "b", ".", "j", "s">>), FALSE, FALSE, FALSE)

ExtractItems == {LinkA, LinkAUp, ScriptB, ImgP, LinkExt, AFrag, LinkGone, ScriptAbs}

ExtractTexts == SeqsNoDup(ExtractItems, MaxTags)

InitExtract ==
    /\ PipeIdle
    /\ fn = "extract"
    /\ res = Pending
    /\ \E text \in ExtractTexts, gone \in SUBSET {ACss} :
          arg = [text |-> text,
                 fs |-> {f \in Assets : f.path.file \notin gone},
                 roots |-> <<Cwd>>]

\* the extraction passes of copyAssetsFromHTML over the text, from an empty
\* registry
CallExtractAll ==
    /\ fn = "extract"
    /\ res = Pending
    /\ res' = ExtractAll(ExtractionPasses,
                         [content |-> arg.text,
                          reg |-> [ents |-> EmptyRegistry, lookup |-> {}, prod |-> {}]],
                         [roots |-> arg.roots, fs |-> arg.fs, stamp |-> <<"staging", 1>>])
    /\ UNCHANGED <<fn, arg, pipeVars>>

NextExtract == CallExtractAll

SpecExtract == InitExtract /\ [][NextExtract]_vars

-----------------------------------------------------------------------------
(* Specification SpecRoots: setRoots over the forms of the --root option    *)

Space == Ch(" ")
Comma == Ch(",")

\* String.prototype.trim of a string of characters
trimString(str) ==
    LET keep == {i \in 1..Len(str) : str[i] # Space}
    IN  IF keep = {} THEN <<>> ELSE SubSeq(str, Min(keep), Max(keep))

\* resolvePath(root): an absolute path as it is, a relative one under the
\* working directory
resolvePath(str, cwd) ==
    IF startsWith(str, <<Slash>>) THEN Components(str) ELSE cwd \o Components(str)

\* the value the loop of setRoots runs over.  The option is an array of
\* strings or a string; of a string with a comma, split(",")[0] is kept,
\* a string, whose elements are its characters
RootsList(roots) ==
    IF roots.t = "array" THEN roots.v
    ELSE IF roots.v = <<>> THEN <<>>
    ELSE IF indexOf(roots.v, <<Comma>>) > 0
    THEN [i \in 1..Len(Head(SplitOn(roots.v, Comma))) |-> <<Head(SplitOn(roots.v, Comma))[i]>>]
    ELSE <<roots.v>>

\* the loop of setRoots: trim, skip the empty, resolve
ResolvedRoots(list, cwd) ==
    LET kept == SelectSeq([i \in 1..Len(list) |-> trimString(list[i])], LAMBDA r : r # <<>>)
    IN  [i \in 1..Len(kept) |-> resolvePath(kept[i], cwd)]

\* the names of root directories on a command line
RootNames == {S(<<"l", "b">>), S(<<"v">>), S(<<" ", "v">>), S(<<"/", "w">>)}

\* a.join(",")
RECURSIVE JoinComma(_)
JoinComma(a) ==
    IF a = <<>> THEN <<>>
    ELSE IF Len(a) = 1 THEN a[1]
    ELSE a[1] \o <<Comma>> \o JoinComma(Tail(a))

RootArrays == SeqsUpTo(RootNames, MaxRoots)

\* --root given several times (an array), once, or as a comma-separated list
RootOptions ==
    {[t |-> "array", v |-> a] : a \in RootArrays}
        \cup {[t |-> "string", v |-> JoinComma(a)] : a \in RootArrays}

InitRoots ==
    /\ pc = "off"
    /\ cli = NoCli
    /\ inputs = <<>>
    /\ files = {}
    /\ disk = {}
    /\ entities = EmptyRegistry
    /\ lookup = {}
    /\ prod = {}
    /\ pass = NoPass
    /\ hist = NoHist
    /\ fn = "setRoots"
    /\ res = Pending
    /\ rootFolders \in {<<>>, <<Cwd \o Pages, Cwd \o <<S(<<"o">>)>> >>}
    /\ \E htmlPathFolder \in {Cwd, Cwd \o Pages}, roots \in RootOptions,
          nm \in SUBSET {DirEntry(Cwd \o NodeModules)} :
          arg = [htmlPathFolder |-> htmlPathFolder, roots |-> roots, fs |-> nm]

\* setRoots(htmlPathFolder, roots), which returns true
CallSetRoots ==
    /\ fn = "setRoots"
    /\ res = Pending
    /\ rootFolders' = setRoots(arg.htmlPathFolder,
                               ResolvedRoots(RootsList(arg.roots), Cwd), Cwd, arg.fs)
    /\ res' = [t |-> "true"]
    /\ UNCHANGED <<fn, arg, pc, cli, inputs, files, disk, entities, lookup, prod, pass, hist>>

NextRoots == CallSetRoots

SpecRoots == InitRoots /\ [][NextRoots]_vars

-----------------------------------------------------------------------------
(* Specification SpecRel: makePathRelative and updateHtml over uris *)

\* characters of a uri handed to makePathRelative
MaxUri == 4

RelUris == SeqsUpTo({Dot, Slash, Ch("a")}, MaxUri)

\* the uris of the tag an entity was registered from
RelTagUris == {Rel(ACss), <<Slash>> \o ACss, ACss}

\* an entity registered from <link href=originalUri>, its uri since set by
\* reviewTargetEntity
RelEntity(uri, originalUri) ==
    [NewEntity(Tag("link", "href", originalUri, TRUE, FALSE, FALSE), uri) EXCEPT
        !.originalUri = originalUri, !.category = "css", !.tagID = <<"css", 0>>,
        !.replacement = Replacement(<<"css", 0>>)]

InitRel ==
    /\ PipeIdle
    /\ fn = "makePathRelative"
    /\ res = Pending
    /\ \E uri \in RelUris, originalUri \in RelTagUris :
          arg = [uri |-> uri, originalUri |-> originalUri]

\* makePathRelative(uri), makePathRelative of that, and updateHtml of a text
\* holding the placeholder of the entity
CallMakePathRelative ==
    /\ fn = "makePathRelative"
    /\ res = Pending
    /\ res' = [once |-> makePathRelative(arg.uri),
               twice |-> makePathRelative(makePathRelative(arg.uri)),
               html |-> updateHtml(<<Text("m")>> \o Replacement(<<"css", 0>>),
                                   RelEntity(arg.uri, arg.originalUri)).html]
    /\ UNCHANGED <<fn, arg, pipeVars>>

NextRel == CallMakePathRelative

SpecRel == InitRel /\ [][NextRel]_vars

-----------------------------------------------------------------------------
(* Specification SpecNested: the extraction minifyCss and copyGeneric run   *)
(* over the content of a stylesheet and of a manifest                       *)

CCss == S(<<"c", ".", "c", "s", "s">>)
QPng == S(<<"q", ".", "p", "n", "g">>)

\* <link rel="stylesheet" href="./pg/c.css"> and
\* <link rel="manifest" href="./pg/manifest.json">
LinkC == Tag("link", "href", S(<<".", "/", "p", "g", "/">>) \o CCss, TRUE, FALSE, FALSE)
LinkMan == Tag("link", "href", S(<<".", "/", "p", "g", "/">>) \o Manifest, FALSE, FALSE, FALSE)

\* symbols of the content of a stylesheet or of a manifest
MaxRefs == 2

\* the contents of the stylesheet and of the manifest
CssBodies == SeqsUpTo({UrlQ(PPng), UrlU(PPng), UrlU(QPng), Rgb, [raw |-> "c1"]}, MaxRefs)
ManifestBodies == SeqsUpTo({Src(PPng), Src(QPng)}, MaxRefs)

\* the places of the images: beside the entry document, beside the
\* stylesheet and the manifest
Images ==
    {[path |-> [dir |-> Cwd, file |-> PPng], data |-> Raw("c5")],
     [path |-> [dir |-> Cwd \o Pages, file |-> PPng], data |-> Raw("c5")],
     [path |-> [dir |-> Cwd \o Pages, file |-> QPng], data |-> Raw("c6")]}

\* the working text and the registry once the tag of the containing file
\* is extracted, with an empty output tree
Containing(tag, passNo, fs) ==
    LET ex == extractEntities(<<tag>>, [ents |-> EmptyRegistry, lookup |-> {}, prod |-> {}],
                              ExtractionPasses[passNo],
                              [roots |-> <<Cwd>>, fs |-> fs, stamp |-> <<"staging", 1>>])
    IN  [html |-> ex.content, reg |-> ex.reg, out |-> {}]

InitNested ==
    /\ PipeIdle
    /\ fn = "extractEntities"
    /\ res = Pending
    /\ \E images \in SUBSET Images :
          \/ \E body \in CssBodies :
                arg = [search |-> "url", category |-> "generic", ref |-> <<"css", 0>>,
                       fs |-> images \cup {[path |-> [dir |-> Cwd \o Pages, file |-> CCss],
                                            data |-> body]},
                       tag |-> LinkC, passNo |-> 1]
          \/ \E body \in ManifestBodies :
                arg = [search |-> "src", category |-> "extras", ref |-> <<"generic", 0>>,
                       fs |-> images \cup {[path |-> [dir |-> Cwd \o Pages, file |-> Manifest],
                                            data |-> body]},
                       tag |-> LinkMan, passNo |-> 2]

\* extractEntities(entity.originalContent, {search, category, referenceDir:
\* entity.sourceDir}) of minifyCss, and that of copyGeneric for a manifest
CallExtractNested ==
    /\ fn = "extractEntities"
    /\ res = Pending
    /\ res' = Nested(Containing(arg.tag, arg.passNo, arg.fs),
                     Ent(Containing(arg.tag, arg.passNo, arg.fs).reg, arg.ref),
                     arg.search, arg.category, arg.fs)
    /\ UNCHANGED <<fn, arg, pipeVars>>

NextNested == CallExtractNested

SpecNested == InitNested /\ [][NextNested]_vars

-----------------------------------------------------------------------------
(* Specification SpecLoops: init() over entry documents that reference a    *)
(* web manifest, under the scheduling of the one process                    *)

\* <link rel="manifest" href="./manifest.json">
LinkM == Tag("link", "href", Rel(Manifest), FALSE, FALSE, FALSE)

\* entry documents with at most one link to the manifest
LoopTexts == SeqsNoDup({LinkM, LinkA}, MaxRefs)

\* the contents of the manifest: no icon, an icon, the manifest itself
LoopBodies == {<<>>, <<Src(PPng)>>, <<Src(Manifest)>>, <<Src(PPng), Src(Manifest)>>}

InitLoops ==
    /\ FnIdle
    /\ pc = "boot"
    /\ inputs = <<IndexDoc>>
    /\ \E text \in LoopTexts, body \in LoopBodies :
          files = Assets \cup {[path |-> DocPath(IndexDoc), data |-> text],
                               [path |-> [dir |-> Cwd, file |-> Manifest], data |-> body]}
    /\ \E c \in BOOLEAN, ms \in ModeSets :
          cli = [minifyHtml |-> TRUE, minifyCss |-> c, minifyJs |-> FALSE,
                 sourcemaps |-> FALSE, development |-> FALSE, staging |-> ms[1],
                 production |-> ms[2], all |-> FALSE, noserver |-> TRUE]
    /\ disk = MkdirP({}, Out)
    /\ rootFolders = <<>>
    /\ entities = EmptyRegistry
    /\ lookup = {}
    /\ prod = {}
    /\ pass = NoPass
    /\ hist = NoHist

\* the steps of init() itself; Unlink is a step of the environment
Process ==
    \/ StartDevelopment
    \/ StartMode
    \/ BeginDoc
    \/ CopyEntity
    \/ FinishDoc
    \/ EndMode

\* ENABLED <<Process>>_vars, from the guards of the six actions
Stepping ==
    \/ pc \in {"boot", "init", "mid", "loop", "write"}
    \/ pc = "copy" /\ Len(entities["extras"]) <= MaxExtras

\* init() is one asynchronous function on the event loop: whenever it can
\* take a step it takes one.  This is WF_vars(Process), written with
\* Stepping for ENABLED <<Process>>_vars; the first step, whose guard is
\* pc = "boot", is given as WF_vars(StartDevelopment) as well.
SpecLoops ==
    /\ InitLoops
    /\ [][Next]_vars
    /\ WF_vars(StartDevelopment)
    /\ ([]<>~Stepping \/ []<><<Process>>_vars)

-----------------------------------------------------------------------------
(* Claims about lookupRootPath (SpecLookup) *)

LookupDone == fn = "lookupRootPath" /\ res # Pending

\* the positions of the Root Set whose directory holds the file of the uri
Holders == {i \in 1..Len(arg.roots) : existsSync(arg.fs, joinPath(arg.roots[i], arg.uri))}

FirstHolder ==
    [t |-> "pair", rootFolder |-> arg.roots[Min(Holders)],
     sourcePath |-> joinPath(arg.roots[Min(Holders)], arg.uri)]

-----------------------------------------------------------------------------
(* Claims about buildProductionTargets (SpecBPT) *)

BptDone == fn = "buildProductionTargets" /\ res # Pending

\* the categories of the deferred placeholders of the working text, in
\* document order: the tag-ids of the text recorded in the tag-id index
DeferredCats ==
    LET ids == SelectSeq(arg.htmlContent,
                         LAMBDA tk : tk.k = "id" /\ <<tk.cat, tk.n>> \in arg.prod)
    IN  [i \in 1..Len(ids) |-> ids[i].cat]

\* a tag that references a bundle: its uri holds a digest of a text
IsBundleTag(tk) ==
    tk.k = "tag" /\ \E i \in 1..Len(tk.uri) : "sha1" \in DOMAIN tk.uri[i]

\* the categories of the bundle tags of the returned text, in order
BundleCats ==
    LET tags == SelectSeq(res.html, IsBundleTag)
    IN  [i \in 1..Len(tags) |-> IF tags[i].el = "script" THEN "script" ELSE "css"]

\* C1: no bundle holds entities of two categories, and a working text whose
\* deferred placeholders are CSS, SCRIPT, CSS in that order yields three
\* bundles, CSS, SCRIPT, CSS (the output tree being writable).
C1_CategoryIsolation ==
    BptDone =>
        /\ \A k \in 1..Len(res.flushes) : \A i, j \in 1..Len(res.flushes[k]) :
              res.flushes[k][i].category = res.flushes[k][j].category
        /\ (arg.canWrite /\ DeferredCats = <<"css", "script", "css">>) =>
              BundleCats = <<"css", "script", "css">>

\* the entities of the deferred placeholders of the working text
Accumulated ==
    {Ent([ents |-> arg.ents], <<tk.cat, tk.n>>) :
        tk \in {arg.htmlContent[k] : k \in {n \in 1..Len(arg.htmlContent) :
                    /\ arg.htmlContent[n].k = "id"
                    /\ <<arg.htmlContent[n].cat, arg.htmlContent[n].n>> \in arg.prod}}}

\* the calls of generateTag that were handed a list holding the entity
FlushesOf(e) ==
    {k \in 1..Len(res.flushes) : \E i \in 1..Len(res.flushes[k]) : res.flushes[k][i] = e}

\* C17: every entity accumulated into a run is emitted by exactly one call
\* of generateTag, and no run is left pending when buildProductionTargets
\* returns, whatever the last segment of the working text is.
C17_FlushAtEnd ==
    BptDone =>
        /\ res.pending = <<>>
        /\ \A e \in Accumulated : Cardinality(FlushesOf(e)) = 1

\* an item of the working text that belongs to no deferred placeholder
Ordinary(tk) == tk # Delim /\ ~(tk.k = "id" /\ <<tk.cat, tk.n>> \in arg.prod)

NotBundleTag(tk) == ~IsBundleTag(tk)

\* C18: the returned text, its bundle tags left out, is the working text,
\* its deferred placeholders left out: every other segment is there,
\* unchanged and in document order (the output tree being writable).
C18_SegmentsPassThrough ==
    (BptDone /\ arg.canWrite) =>
        SelectSeq(res.html, NotBundleTag) = SelectSeq(arg.htmlContent, Ordinary)

\* C19: generateTag is never handed an empty list, and the returned text
\* never holds the text "null" (the output tree being writable).
C19_NoEmptyFlush ==
    (BptDone /\ arg.canWrite) =>
        /\ \A k \in 1..Len(res.flushes) : res.flushes[k] # <<>>
        /\ \A k \in 1..Len(res.html) : res.html[k] # Text("null")

-----------------------------------------------------------------------------
(* Claims about the passes of init() (Spec) *)

\* the names of the files of a directory of the output tree
FilesIn(dir) == {f.path.file : f \in {g \in disk : g.path.dir = dir /\ g.path.file # <<>>}}

EndsWith(str, suffix) == Len(str) >= Len(suffix) /\ IsAt(str, suffix, Len(str) - Len(suffix) + 1)

\* a name or uri that holds a digest
HashNamed(str) == \E i \in 1..Len(str) : "sha1" \in DOMAIN str[i]

\* the uris of the tags of a text
TagUris(html) == {html[k].uri : k \in {n \in 1..Len(html) : html[n].k = "tag"}}

\* the record of the HTML the pass `at` wrote
WrittenAt(at) == {w \in hist.written : w.at = at /\ w.read}

\* the first entry document has just been written for the build type, and no
\* fault occurred
FirstWritten(buildType) ==
    /\ pc = "loop"
    /\ pass.buildType = buildType
    /\ pass.doc = 2
    /\ hist.faults = 0

\* the entry document of the pass `at`, as it lies in the source tree
SourceOf(at) == ReadFile(files, DocPath(inputs[at[2]]))

\* C2: in the HTML a pass writes, every tag from which the pass registered an
\* entity and put it back stands where it stood, the same but for its uri,
\* which is the uri of the entity; every other item of the working text is as
\* it was before the extraction.
C2_PlaceholderRoundTrip ==
    \A buildType \in {"staging", "production"} :
        FirstWritten(buildType) =>
            \A w \in WrittenAt(<<buildType, 1>>) :
                /\ Len(w.html) = Len(w.text)
                /\ \A k \in 1..Len(w.text) :
                      /\ w.html[k] = [w.text[k] EXCEPT !.uri = w.html[k].uri]
                      /\ \A e \in AllEntities(entities) :
                            (/\ e.regPass = w.at
                             /\ e.applied
                             /\ e.tag = toLowerCase(w.text[k]))
                            => w.html[k].uri = e.uri

\* C4: a region marked for a build type is absent from the HTML written for
\* that build type, and present in the HTML written for the other one.
C4_DirectiveModeSpecific ==
    \A w \in hist.written : \A m \in {"staging", "production"} :
        (w.read /\ indexOf(SourceOf(w.at), Region(m)) > 0) =>
            IF w.at[1] = m
            THEN \A k \in 1..Len(w.html) : w.html[k] # Text(m)
            ELSE \E k \in 1..Len(w.html) : w.html[k] = Text(m)

\* C5: whatever flags the caller gave, a production pass transforms with
\* minification on and source maps off; no entity registered by a production
\* pass has a source map name, path or content; and no .map file lies in the
\* production output.
C5_ProductionOverridesFlags ==
    /\ (pass.buildType = "production" /\ pc \in {"copy", "write"}) =>
          (pass.minifyCss /\ pass.minifyJs /\ ~pass.sourcemaps)
    /\ \A p \in hist.processed :
          p.at[1] = "production" =>
              /\ ~p.sourcemaps
              /\ p.tagID[1] \in {"css", "script", "esm"} => p.minify
    /\ \A e \in AllEntities(entities) :
          e.regPass[1] = "production" =>
              /\ e.sourcemapName = <<>>
              /\ e.sourcemapPath = NoPath
              /\ e.sourcemapContent = <<>>
    /\ \A f \in FilesIn(Out \o ModeDir("production")) : ~EndsWith(f, DotMap)

\* C5 witness: the caller asked for source maps and no css minification, and
\* a production pass has transformed a stylesheet and a script into
\* digest-named files
C5_Witness ==
    /\ pc = "done"
    /\ cli.sourcemaps /\ ~cli.minifyCss /\ ~cli.minifyJs
    /\ \E p \in hist.processed : p.at[1] = "production" /\ p.tagID[1] = "css"
    /\ \E p \in hist.processed : p.at[1] = "production" /\ p.tagID[1] = "script"
    /\ \E f \in FilesIn(Out \o ModeDir("production")) : HashNamed(f)

\* the entry document holds the stylesheet ./a.css and the classic script
\* ./b.js, and nothing else
ScenarioAB ==
    /\ inputs = <<IndexDoc>>
    /\ \E link \in {LinkA, LinkAUp} :
          SourceOf(<<"", 1>>) \in {<<link, ScriptB>>, <<ScriptB, link>>}

\* C6: for a document with ./a.css and ./b.js, a staging pass with
\* minification and source maps writes exactly a.min.css, a.css.map, a.css,
\* b.min.js, b.js.map and b.js beside the HTML, which references the .min
\* files; and every stylesheet or script a staging pass minifies is written
\* as <name>.min<ext>, its map being <name><ext>.map and its unminified twin
\* being written only with a map.
C6_StagingNaming ==
    FirstWritten("staging") =>
        /\ (ScenarioAB /\ cli.minifyCss /\ cli.minifyJs /\ cli.sourcemaps) =>
              /\ FilesIn(pass.outputFolder) \ {IndexDoc.base} =
                    {S(<<"a", ".", "m", "i", "n", ".", "c", "s", "s">>),
                     S(<<"a", ".", "c", "s", "s", ".", "m", "a", "p">>),
                     S(<<"a", ".", "c", "s", "s">>),
                     S(<<"b", ".", "m", "i", "n", ".", "j", "s">>),
                     S(<<"b", ".", "j", "s", ".", "m", "a", "p">>),
                     S(<<"b", ".", "j", "s">>)}
              /\ \A w \in WrittenAt(<<"staging", 1>>) :
                    TagUris(w.html) =
                        {S(<<".", "/", "a", ".", "m", "i", "n", ".", "c", "s", "s">>),
                         S(<<".", "/", "b", ".", "m", "i", "n", ".", "j", "s">>)}
        /\ \A p \in hist.processed :
              (p.minify /\ p.tagID[1] \in {"css", "script"}) =>
                  /\ Ent([ents |-> entities], p.tagID).targetPath.file =
                        Ent([ents |-> entities], p.tagID).name \o DotMin
                            \o Ent([ents |-> entities], p.tagID).ext
                  /\ p.sourcemaps =>
                        Ent([ents |-> entities], p.tagID).sourcemapPath.file =
                            Ent([ents |-> entities], p.tagID).name
                                \o Ent([ents |-> entities], p.tagID).ext \o DotMap
                  /\ existsSync(disk, Ent([ents |-> entities], p.tagID).targetPathUncompressed)
                        => p.sourcemaps

\* C7: for a document with ./a.css and ./b.js, a production run leaves in the
\* production output, beside the HTML, exactly two files, both named by a
\* digest, one .css and one .js; the HTML written references exactly those
\* two; and no file there is a .map.
C7_ProductionScenario ==
    (pc = "done" /\ cli.production /\ hist.faults = 0 /\ ScenarioAB) =>
        /\ Cardinality(FilesIn(Out \o ModeDir("production")) \ {IndexDoc.base}) = 2
        /\ \A f \in FilesIn(Out \o ModeDir("production")) \ {IndexDoc.base} :
              HashNamed(f) /\ ~EndsWith(f, DotMap)
        /\ \E f \in FilesIn(Out \o ModeDir("production")) : EndsWith(f, S(<<".", "c", "s", "s">>))
        /\ \E f \in FilesIn(Out \o ModeDir("production")) : EndsWith(f, S(<<".", "j", "s">>))
        /\ \A w \in WrittenAt(<<"production", 1>>) :
              TagUris(w.html) =
                  {Rel(f) : f \in FilesIn(Out \o ModeDir("production")) \ {IndexDoc.base}}

\* C8: when a pass begins its extraction the registry holds no entity of an
\* earlier pass, and no pass transforms or copies an entity that another
\* pass registered.
C8_FreshRegistry ==
    /\ hist.stale = {}
    /\ \A p \in hist.processed : p.of = p.at

\* C9: a source file that is missing when its entity is transformed does not
\* stop the pass, in staging or in production: the process goes on to the
\* next entities and to the writing of the HTML.
C9_MissingSourceNonFatal ==
    hist.missing # {} => pc # "crashed"

\* C10: when the pass of an entry document fails on the file system (output
\* directory not created, document not read, HTML not written), every later
\* entry document is still begun for that build type, and every build type
\* asked for is begun.
C10_FailureLocal ==
    pc = "done" =>
        /\ \A s \in hist.failed : \A j \in 1..Len(inputs) :
              j > s[2] => <<s[1], j>> \in hist.started
        /\ \A m \in {"staging", "production"} :
              cli[m] => <<m, 1>> \in hist.started

\* the stop and start requests made for the server of a name, in order
StopStart(name) ==
    SelectSeq(hist.requests, LAMBDA r : r.name = name /\ r.op \in {"stop", "start"})

\* every entry document has been written for the build type
AllWritten(buildType) ==
    \A j \in 1..Len(inputs) : \E w \in hist.written : w.at = <<buildType, j>>

\* C11: with noserver no request is made to the preview-server coordinator;
\* otherwise, once init() is over, for every mode that was run exactly one
\* stop request and then exactly one start request were made for the server
\* of that mode, and the requests of a build type are made only after all
\* its entry documents have been processed.
C11_OneStopStartPerMode ==
    /\ cli.noserver => hist.requests = <<>>
    /\ \A m \in {"staging", "production"} : StopStart(m) # <<>> => AllWritten(m)
    /\ (pc = "done" /\ ~cli.noserver) =>
          \A m \in {"development", "staging", "production"} :
              Modes(cli)[m] =>
                  StopStart(m) = <<[op |-> "stop", name |-> m], [op |-> "start", name |-> m]>>

\* no mode option is given on the command line
NoModeOption == ~cli.development /\ ~cli.staging /\ ~cli.production /\ ~cli.all

\* C12: an invocation with an entry document and no mode option generates
\* two builds: once init() is over the HTML of the document lies in
\* <output>/staging and in <output>/production.
C12_DefaultTwoBuilds ==
    (pc = "done" /\ NoModeOption /\ hist.faults = 0) =>
        \A m \in {"staging", "production"} :
            /\ \E w \in hist.written : w.at = <<m, 1>>
            /\ existsSync(disk, [dir |-> Out \o ModeDir(m), file |-> inputs[1].base])

\* an entry document has just been written: its pass
JustWritten == pc = "loop" /\ pass.doc > 1 /\ pass.read

\* the directory of the output tree that mirrors the directory of the entry
\* document of the pass `at`
Mirror(at) == Out \o ModeDir(at[1]) \o inputs[at[2]].dir

Transformed ==
    {p \in hist.processed :
        /\ p.at = <<pass.buildType, pass.doc>>
        /\ p.of = p.at
        /\ p.tagID[1] \in {"css", "script"}
        /\ [at |-> p.at, tagID |-> p.tagID] \notin hist.missing}

\* C15: in a production pass, once minifyCss or minifyJs has processed a
\* stylesheet or a script, the entity is in the tag-id index and its
\* placeholder is still in the working text, up to the writing of the HTML.
C15_ProductionDefers ==
    (pass.buildType = "production" /\ pc \in {"copy", "write"}) =>
        \A p \in Transformed :
            /\ p.tagID \in prod
            /\ indexOf(pass.html, Replacement(p.tagID)) > 0

\* C16: the HTML a production pass writes is the text buildProductionTargets
\* returned for it.
C16_WrittenAfterCoalescing ==
    \A w \in hist.written :
        (w.at[1] = "production" /\ w.read) => w.html = w.result

\* C20: the HTML a pass writes holds no placeholder.
C20_NoPlaceholderWritten ==
    \A w \in hist.written :
        w.read => \A k \in 1..Len(w.html) : w.html[k] # Delim

-----------------------------------------------------------------------------
(* Claims about production file names (SpecNames) *)

NamesDone == fn = "production" /\ res # Pending

\* C13: two production builds of the same sources, one alone and one after
\* a staging pass in the same process, leave files of the same names in the
\* production output, and the bundle of their stylesheets has the same
\* name.
C13_DeterministicNames ==
    NamesDone =>
        /\ res.alone.names = res.after.names
        /\ res.alone.bundle = res.after.bundle

\* C13 witness: the build after a staging pass held stale entities, both
\* builds wrote digest-named files and a bundle
C13_Witness ==
    /\ NamesDone
    /\ arg.flags.minifyCss /\ arg.flags.sourcemaps
    /\ res.after.entities > res.alone.entities
    /\ Cardinality({f \in res.alone.names : HashNamed(f)}) >= 2
    /\ \E f \in res.alone.bundle : HashNamed(f)
    /\ res.after.bundle # {}

-----------------------------------------------------------------------------
(* Claims about the extraction passes (SpecExtract) *)

ExtractDone == fn = "extract" /\ res # Pending

\* the uri of the tag is an external url, a bare fragment, or names no file
\* of the Root Set
Skipped(tk) ==
    \/ isUrl(tk.uri)
    \/ Head(tk.uri) = Ch("#")
    \/ lookupRootPath(getPathName(tk.uri), arg.roots, arg.fs) = Null

\* the entities registered from a tag
EntitiesOf(tk) == {e \in AllEntities(res.reg.ents) : e.tag = toLowerCase(tk)}

\* the tags of a text that the extraction has to skip, in order
SkippedIn(text) == SelectSeq(text, LAMBDA tk : tk.k = "tag" /\ Skipped(tk))

PassesOf(tk) ==
    {i \in 1..Len(ExtractionPasses) :
        /\ Matches(tk, ExtractionPasses[i].tagName, ExtractionPasses[i].sourceRefName)
        /\ HasExtra(tk, ExtractionPasses[i].extraProperty)}

\* what stands for the tag after the extraction: the placeholder of its
\* entity, or the tag itself when it has none
StandsFor(tk) ==
    IF EntitiesOf(tk) = {} THEN <<tk>>
    ELSE (CHOOSE e \in EntitiesOf(tk) : TRUE).replacement

\* C22: each tag of the text yields at most one entity, of the category of
\* the first pass that matches it, and the returned text is the text with
\* each registered tag replaced by its placeholder, once.
C22_OneEntityPerTag ==
    ExtractDone =>
        /\ \A k \in 1..Len(arg.text) :
              /\ Cardinality(EntitiesOf(arg.text[k])) <= 1
              /\ \A e \in EntitiesOf(arg.text[k]) :
                    e.category = ExtractionPasses[Min(PassesOf(arg.text[k]))].category
        /\ res.content = Flatten([k \in 1..Len(arg.text) |-> StandsFor(arg.text[k])])

\* the tag references, by its pathname, a file that exists as named
NamesFile(tk) ==
    /\ tk.k = "tag"
    /\ ~isUrl(tk.uri)
    /\ Head(tk.uri) # Ch("#")
    /\ existsSync(arg.fs, ToPath(getPathName(tk.uri)))

\* C23: the resolver answers with a {rootFolder, sourcePath} pair or with
\* nothing, and a tag whose uri names an existing file as it stands is
\* registered with that file as its sourcePath.
C23_LiteralPathRegistered ==
    ExtractDone =>
        \A k \in 1..Len(arg.text) :
            NamesFile(arg.text[k]) =>
                /\ lookupRootPath(getPathName(arg.text[k].uri), arg.roots, arg.fs).t = "pair"
                /\ \E e \in EntitiesOf(arg.text[k]) :
                      e.sourcePath = ToPath(getPathName(arg.text[k].uri))

-----------------------------------------------------------------------------
(* Claims about setRoots (SpecRoots) *)

RootsDone == fn = "setRoots" /\ res # Pending

\* the root directories the user supplied, in the order given
Supplied(roots) ==
    IF roots.t = "array" THEN roots.v ELSE SplitOn(roots.v, Comma)

\* C24: after setRoots the Root Set is the entry document's directory, the
\* user's root directories in the order given, whatever the form of the
\* option, and node_modules when it exists, without repetition; nothing
\* of the Root Set of before remains.
C24_RootOrder ==
    RootsDone =>
        rootFolders =
            Dedup(<<arg.htmlPathFolder>>
                  \o ResolvedRoots(Supplied(arg.roots), Cwd)
                  \o (IF DirExists(arg.fs, Cwd \o NodeModules)
                      THEN <<Cwd \o NodeModules>> ELSE <<>>))

-----------------------------------------------------------------------------
(* Claims about the order of the registry and of copyEntities (Spec) *)

\* the tags of the entry document of a pass, as extractEntities takes them
TagsAt(stamp) ==
    LET text == (CHOOSE f \in files : f.path = DocPath(inputs[stamp[2]])).data
    IN  [k \in 1..Len(text) |-> toLowerCase(text[k])]

\* the tags of the entities a pass registered in a category, in the order
\* of the registry
RegisteredAt(stamp, c) ==
    LET es == SelectSeq(entities[c], LAMBDA e : e.regPass = stamp)
    IN  [k \in 1..Len(es) |-> es[k].tag]

\* the calls of copyEntity of a pass for a category before the k-th call
\* of the run
Earlier(k) ==
    {j \in 1..(k - 1) : /\ hist.order[j].at = hist.order[k].at
                         /\ hist.order[j].tagID[1] = hist.order[k].tagID[1]}

\* a is b with some of its elements left out
RECURSIVE IsSubSeq(_, _)
IsSubSeq(a, b) ==
    IF a = <<>> THEN TRUE
    ELSE IF b = <<>> THEN FALSE
    ELSE IF Head(a) = Head(b) THEN IsSubSeq(Tail(a), Tail(b))
    ELSE IsSubSeq(a, Tail(b))

-----------------------------------------------------------------------------
(* Claims about reviewHTML (Spec) *)

\* the text without its regions of a build type, each region running from
\* an opening marker to the first closing marker after it
RECURSIVE WithoutRegions(_, _)
WithoutRegions(text, m) ==
    LET opens == {i \in 1..Len(text) : text[i] = OpenM(m)}
        closes == {j \in 1..Len(text) : text[j] = CloseM(m) /\ opens # {} /\ j > Min(opens)}
    IN  IF opens = {} \/ closes = {} THEN text
        ELSE Upto(text, Min(opens) - 1) \o WithoutRegions(From(text, Min(closes) + 1), m)

\* what a text holds besides markers, delimiters and white space: its
\* texts, and "asset" for a tag or the placeholder of a tag
Held(text) ==
    LET items == SelectSeq(text, LAMBDA tk : tk.k \in {"text", "tag", "id"})
    IN  [k \in 1..Len(items) |-> IF items[k].k = "text" THEN items[k].txt ELSE "asset"]

\* C26: the HTML written for a build type holds what the document holds
\* outside its regions of that build type, in order: what lies between two
\* regions is kept, and so is a region of another build type.
C26_OnlyMarkedRegions ==
    \A w \in hist.written :
        w.read => Held(w.html) = Held(WithoutRegions(SourceOf(w.at), w.at[1]))

-----------------------------------------------------------------------------
(* Claims about the identity of the entities (Spec) *)

\* the positions of the registry
Positions(ents) == UNION {{<<c, k - 1>> : k \in 1..Len(ents[c])} : c \in Categories}

\* C27: in every state the program reaches, the entity at index i of
\* category c has tagID c(i) and the replacement delimiter c(i) delimiter,
\* no two entities share a tagID or a replacement, and no step changes the
\* tagID, the category or the originalUri of an entity in the registry.
C27_IdentityKept ==
    [][/\ \A ref \in Positions(entities') :
             /\ Ent([ents |-> entities'], ref).tagID = ref
             /\ Ent([ents |-> entities'], ref).category = ref[1]
             /\ Ent([ents |-> entities'], ref).replacement = <<Delim, IdTok(ref[1], ref[2]), Delim>>
             /\ \A other \in Positions(entities') :
                   other # ref =>
                       /\ Ent([ents |-> entities'], other).tagID # Ent([ents |-> entities'], ref).tagID
                       /\ Ent([ents |-> entities'], other).replacement
                             # Ent([ents |-> entities'], ref).replacement
       /\ \A ref \in Positions(entities) :
             /\ ref \in Positions(entities')
             /\ Ent([ents |-> entities'], ref).tagID = Ent([ents |-> entities], ref).tagID
             /\ Ent([ents |-> entities'], ref).category = Ent([ents |-> entities], ref).category
             /\ Ent([ents |-> entities'], ref).originalUri = Ent([ents |-> entities], ref).originalUri
      ]_vars

\* two entities of one category, one of them written back into the HTML
\* under another uri than the one it was registered with
C27_Witness ==
    \E c \in Categories :
        /\ Len(entities[c]) >= 2
        /\ \E k \in 1..Len(entities[c]) :
              /\ entities[c][k].applied
              /\ entities[c][k].uri # entities[c][k].originalUri

-----------------------------------------------------------------------------
(* Claims about makePathRelative (SpecRel) *)

RelDone == fn = "makePathRelative" /\ res # Pending

\* C28: makePathRelative maps "/x" to "./x", prefixes "./" to a uri that
\* does not start with "./", leaves a uri that starts with "./" as it is,
\* and applied twice gives what it gives applied once; the tag updateHtml
\* writes into the HTML holds that uri, which begins with "./".
C28_RelativeUri ==
    RelDone =>
        /\ startsWith(arg.uri, <<Slash>>) => res.once = <<Dot>> \o arg.uri
        /\ startsWith(arg.uri, <<Dot, Slash>>) => res.once = arg.uri
        /\ (~startsWith(arg.uri, <<Slash>>) /\ ~startsWith(arg.uri, <<Dot, Slash>>))
              => res.once = <<Dot, Slash>> \o arg.uri
        /\ res.twice = res.once
        /\ startsWith(res.once, <<Dot, Slash>>)
        /\ Len(res.html) = 2
        /\ res.html[2].k = "tag"
        /\ res.html[2].uri = res.once

\* an absolute uri, rewritten
C28_Witness ==
    /\ RelDone
    /\ arg.uri = <<Slash, Ch("a"), Slash, Ch("a")>>
    /\ arg.originalUri = <<Slash>> \o ACss
    /\ res.html[2].uri = <<Dot, Slash, Ch("a"), Slash, Ch("a")>>

-----------------------------------------------------------------------------
(* Claims about the nested extraction (SpecNested) *)

NestedDone == fn = "extractEntities" /\ res # Pending

\* the containing file's entity, and its content
Container == Ent(Containing(arg.tag, arg.passNo, arg.fs).reg, arg.ref)
ContentOf(e) == ReadFile(arg.fs, e.sourcePath)

\* the uris the content references
ReferencedBy(content) ==
    {content[k].url : k \in {n \in 1..Len(content) : IsUrlRef(content[n])}}
        \cup {content[k].src : k \in {n \in 1..Len(content) : "src" \in DOMAIN content[n]}}

\* the entities the nested extraction registered
NestedEntities == {e \in AllEntities(res.reg.ents) : e.regPass = <<"nested", 0>>}

\* C29: a reference inside a stylesheet or a manifest is registered if and
\* only if its file exists under the directory of the containing file, with
\* that file as sourcePath; nothing is registered from elsewhere, and the
\* working text, the output tree and the containing entity stay as they are.
C29_NestedBesideContainer ==
    NestedDone =>
        /\ \A uri \in ReferencedBy(ContentOf(Container)) :
              existsSync(arg.fs, joinPath(Container.sourceDir, getPathName(uri)))
                  <=> \E e \in NestedEntities :
                         /\ e.originalUri = uri
                         /\ e.sourcePath = joinPath(Container.sourceDir, getPathName(uri))
        /\ \A e \in NestedEntities :
              /\ e.rootFolder = Container.sourceDir
              /\ e.sourcePath.dir = Container.sourceDir
              /\ e.category = arg.category
        /\ res.html = Containing(arg.tag, arg.passNo, arg.fs).html
        /\ res.out = {}
        /\ Ent(res.reg, arg.ref) = Container

-----------------------------------------------------------------------------
(* Claims about termination (SpecLoops) *)

====
